---- MODULE Spec2Model ----
(***************************************************************************)
(* Model of the Bitget exchange client (src/ability/module/bitget_trader), *)
(* of the MCP tools that call it (src/core/mcp_server), of the research    *)
(* workflow (src/operator/crypto_research) and of the MCP client           *)
(* (src/core/mcp_client).                                                  *)
(*                                                                         *)
(* Strings are sequences of symbols.  A symbol is a character or an atomic *)
(* substring that holds none of the separators "&", "=", "?".  Python's    *)
(* None is the one-symbol sequence None; "" is the empty sequence.  An     *)
(* optional record is a sequence of length zero or one.                    *)
(***************************************************************************)
EXTENDS Integers, Sequences, FiniteSets, TLC

VARIABLES
  \* ---- one call of get_signature on caller-supplied query strings
  sig_in,       \* <<inputs>> of the two calls: secret, timestamp, method, path, body, q1, q2
  sig_out1,     \* <<signature>> returned for query string q1 (<<>> before the call)
  sig_out2,     \* <<signature>> returned for query string q2 (<<>> before the call)
  \* ---- one logical call through the client
  self,         \* the BitgetAPI object: credentials, base_url, default headers
  call,         \* what the caller invoked: entry point and arguments
  pc,           \* position of the control path of the logical call
  stack,        \* activation records of BitgetAPI.request, innermost last
  attempts,     \* HTTP attempts of the call's own request, in order
  wire,         \* HTTP round trips that were started and have not come back
  ret,          \* value a finished nested request hands to get_server_time
  outcome,      \* what the entry point handed back to the caller
  \* ---- calls of request that run at the same time on the one client
  threads,      \* per caller: its position in request and the locals of its activation
  clock,        \* the wall clock, in milliseconds
  \* ---- one run of a tool that closes positions
  tool,         \* <<activation>> of the tool: its position, locals and result
  \* ---- one run of DeepResearchService.execute
  flow,         \* <<run>>: the node to run next, the workflow state, the nodes run so far
  tasks,        \* the coroutines of Researcher.process that asyncio.gather waits for
  \* ---- one MCPClient object and the calls made on it
  mcp           \* <<client>>: session, connected, and what the last call did

sigVars == <<sig_in, sig_out1, sig_out2>>
reqVars == <<self, call, pc, stack, attempts, wire, ret, outcome>>
agentVars == <<flow, tasks, mcp>>
concVars == <<threads, clock, tool, flow, tasks, mcp>>
vars == <<sig_in, sig_out1, sig_out2, self, call, pc, stack, attempts, wire, ret, outcome,
          threads, clock, tool, flow, tasks, mcp>>

None == <<"<None>">>

\* Python truthiness of an optional string
Falsy(x) == x = None \/ x = <<>>

\* no signing is going on
SigIdle == sig_in = <<>> /\ sig_out1 = <<>> /\ sig_out2 = <<>>

\* no logical call is going on
ReqIdle ==
  /\ self = <<>> /\ call = <<>> /\ pc = "idle" /\ stack = <<>> /\ attempts = <<>>
  /\ wire = <<>> /\ ret = <<>> /\ outcome = <<>>

\* no workflow runs and no MCP client exists
AgentIdle == flow = <<>> /\ tasks = <<>> /\ mcp = <<>>

\* no callers run side by side
ConcIdle == threads = <<>> /\ clock = 0 /\ tool = <<>> /\ AgentIdle

----------------------------------------------------------------------------
(* Python string operations on symbol sequences                            *)

\* Code-point order of the symbols that occur in keys (ASCII order).
Alphabet == <<"&", "-", "1", "2", "=", "?", "USDT", "a", "b", "marginCoin", "productType", "usdt">>

Rank(c) == CHOOSE i \in 1..Len(Alphabet) : Alphabet[i] = c

\* a < b for Python strings: lexicographic, a proper prefix is smaller
RECURSIVE StrLess(_, _)
StrLess(a, b) ==
  IF b = <<>> THEN FALSE
  ELSE IF a = <<>> THEN TRUE
  ELSE IF Head(a) = Head(b) THEN StrLess(Tail(a), Tail(b))
  ELSE Rank(Head(a)) < Rank(Head(b))

\* s.split(sep): always at least one part
RECURSIVE Split(_, _)
Split(s, sep) ==
  IF s = <<>> THEN << <<>> >>
  ELSE IF Head(s) = sep THEN << <<>> >> \o Split(Tail(s), sep)
  ELSE LET rest == Split(Tail(s), sep)
       IN  << <<Head(s)>> \o Head(rest) >> \o Tail(rest)

\* sep.join(parts)
RECURSIVE Join(_, _)
Join(parts, sep) ==
  IF parts = <<>> THEN <<>>
  ELSE IF Len(parts) = 1 THEN Head(parts)
  ELSE Head(parts) \o <<sep>> \o Join(Tail(parts), sep)

\* the sort key of get_signature: x.split('=')[0]
ParamKey(x) == Head(Split(x, "="))

\* insertion of x behind every element whose key is not greater (stable)
RECURSIVE InsertByKey(_, _)
InsertByKey(x, sorted) ==
  IF sorted = <<>> THEN <<x>>
  ELSE IF StrLess(ParamKey(x), ParamKey(Head(sorted))) THEN <<x>> \o sorted
  ELSE <<Head(sorted)>> \o InsertByKey(x, Tail(sorted))

RECURSIVE SortFrom(_, _)
SortFrom(parts, acc) ==
  IF parts = <<>> THEN acc
  ELSE SortFrom(Tail(parts), InsertByKey(Head(parts), acc))

Unsorted(parts) == parts

\* sorted(query_params, key=lambda x: x.split('=')[0])
SortedByKey(parts) == SortFrom(parts, <<>>)

\* the words whose case the client changes, as <<lower, upper>>
Words == {<<"get", "GET">>, <<"post", "POST">>, <<"delete", "DELETE">>, <<"usdt", "USDT">>,
          <<"market", "MARKET">>, <<"limit", "LIMIT">>, <<"buy", "BUY">>, <<"sell", "SELL">>,
          <<"btcusdt", "BTCUSDT">>, <<"ethusdt", "ETHUSDT">>}

\* str.upper()
Upper(m) == (CHOOSE w \in Words : m \in {w[1], w[2]})[2]

\* str.lower()
Lower(m) == (CHOOSE w \in Words : m \in {w[1], w[2]})[1]

\* f"{n}" for a non-negative integer: its decimal digits
RECURSIVE IntToStr(_)
IntToStr(n) ==
  LET d == <<"0", "1", "2", "3", "4", "5", "6", "7", "8", "9">>
  IN  IF n < 10 THEN <<d[n + 1]>> ELSE IntToStr(n \div 10) \o <<d[(n % 10) + 1]>>

\* base64(HMAC-SHA256(secret, message)): a keyed digest is taken to be
\* collision free, so it is the pair it was computed from.
HmacB64(secret, message) == [key |-> secret, msg |-> message]

SignsLaterTimestamp(secret, timestamp, method, request_path, query_string, body) ==
  HmacB64(secret, IntToStr(timestamp + 1) \o <<Upper(method)>> \o request_path
                  \o (IF query_string # <<>> THEN <<"?">> \o query_string ELSE <<>>) \o body)

\* BitgetAPI.get_signature
get_signature(secret, timestamp, method, request_path, query_string, body) ==
  LET qs == IF query_string # <<>>
            THEN Join(SortedByKey(Split(query_string, "&")), "&")
            ELSE query_string
      message == IF qs # <<>>
                 THEN IntToStr(timestamp) \o <<Upper(method)>> \o request_path \o <<"?">> \o qs \o body
                 ELSE IntToStr(timestamp) \o <<Upper(method)>> \o request_path \o body
  IN  HmacB64(secret, message)

----------------------------------------------------------------------------
(* Python values of the client                                             *)

\* a dict is a function from its keys; d.get(k, default)
Get(d, k, default) == IF k \in DOMAIN d THEN d[k] ELSE default

\* s.startswith(prefix)
StartsWith(s, prefix) == Len(s) >= Len(prefix) /\ SubSeq(s, 1, Len(prefix)) = prefix

\* a dict that is serialised keeps its insertion order: a sequence of <<key, value>>
\* json.dumps(body)
RECURSIVE JsonItems(_)
JsonItems(items) ==
  IF items = <<>> THEN <<>>
  ELSE <<"\"", items[1][1], "\"", ": ", "\"">> \o items[1][2] \o <<"\"">>
       \o (IF Len(items) > 1 THEN <<", ">> ELSE <<>>) \o JsonItems(Tail(items))

JsonDumps(items) == <<"{">> \o JsonItems(items) \o <<"}">>

\* sorted(params.items()): by key, keys are unique
RECURSIVE InsertItem(_, _)
InsertItem(x, sorted) ==
  IF sorted = <<>> THEN <<x>>
  ELSE IF StrLess(<<x[1]>>, <<Head(sorted)[1]>>) THEN <<x>> \o sorted
  ELSE <<Head(sorted)>> \o InsertItem(x, Tail(sorted))

RECURSIVE SortedItems(_)
SortedItems(items) ==
  IF items = <<>> THEN <<>> ELSE InsertItem(items[Len(items)], SortedItems(SubSeq(items, 1, Len(items) - 1)))

\* '&'.join([f"{k}={v}" for k, v in sorted_params.items()])
QueryString(items) == Join([i \in 1..Len(items) |-> <<items[i][1], "=">> \o items[i][2]], "&")

Min(a, b) == IF a < b THEN a ELSE b

----------------------------------------------------------------------------
(* BitgetAPI.request                                                        *)

PRODUCT_TYPE == <<"USDT", "-", "FUTURES">>

ClientWithoutLocale(api_key, secret, passphrase) ==
  [api_key |-> api_key, secret |-> secret, passphrase |-> passphrase,
   base_url |-> "https://api.bitget.com",
   headers |-> ("ACCESS-KEY" :> api_key) @@ ("ACCESS-PASSPHRASE" :> passphrase)
               @@ ("Content-Type" :> "application/json")]

\* BitgetAPI.__init__
NewClient(api_key, secret, passphrase) ==
  [api_key |-> api_key, secret |-> secret, passphrase |-> passphrase,
   base_url |-> "https://api.bitget.com",
   headers |-> ("ACCESS-KEY" :> api_key) @@ ("ACCESS-PASSPHRASE" :> passphrase)
               @@ ("Content-Type" :> "application/json") @@ ("locale" :> "en-US")]

\* int(time.time() * 1000): the local clock, read in milliseconds; it is
\* taken to advance with every attempt of the call's own request
LocalClock(log) == 1000 + Len(log)

\* the exchange's clock, as the time endpoint reports it
ServerClock(log) == 5000 + Len(log)

\* line 132: query_string if method.lower() == 'get' else ''
SignedQueryOf(method, query_string) == IF Lower(method) = "get" THEN query_string ELSE <<>>

SignedBodyAlways(method, body_str) == body_str

\* line 133: body_str if method.lower() != 'get' else ''
SignedBodyOf(method, body_str) == IF Lower(method) # "get" THEN body_str ELSE <<>>

\* lines 116-138: everything request does before its retry loop
request_prologue(now, method, endpoint, params, body, max_retries) ==
  LET timestamp == now
      sorted_params == SortedItems(params)
      query_string == IF params # <<>> THEN QueryString(sorted_params) ELSE <<>>
      body_str == IF body # <<>> THEN JsonDumps(body) ELSE <<>>
      signature == get_signature(self[1].secret, timestamp, Upper(method),
                                 <<"/", endpoint>>,
                                 SignedQueryOf(method, query_string),
                                 SignedBodyOf(method, body_str))
  IN  [method |-> method, endpoint |-> endpoint, body |-> body,
       url |-> [base |-> self[1].base_url, path |-> <<"/", endpoint>>,
                query |-> IF params # <<>> /\ Lower(method) = "get" THEN query_string ELSE <<>>],
       timestamp |-> timestamp,
       headers |-> ("ACCESS-TIMESTAMP" :> IntToStr(timestamp)) @@ ("ACCESS-SIGN" :> signature)
                   @@ self[1].headers,
       retries |-> 0, max_retries |-> max_retries]

\* the exchange codes the client takes for a rejected timestamp (line 161)
DriftCodes == {<<"4", "0", "0", "0", "4">>, <<"4", "0", "0", "0", "5">>, <<"4", "0", "0", "0", "8">>}

DriftCodeWithout40008(error_code) ==
  error_code \in {<<"4", "0", "0", "0", "4">>, <<"4", "0", "0", "0", "5">>}

DriftOrParamCode(error_code) ==
  error_code \in DriftCodes \/ StartsWith(error_code, <<"4", "0", "0", "1">>)

IsDriftCode(error_code) == error_code \in DriftCodes

ParamCode4001Only(error_code) == StartsWith(error_code, <<"4", "0", "0", "1">>)

\* line 168
IsInvalidParamCode(error_code) ==
  StartsWith(error_code, <<"4", "0", "0", "1">>) \/ StartsWith(error_code, <<"4", "0", "0", "2">>)

AuthStatus401Only(status_code) == status_code = 401

\* line 176
IsAuthStatus(status_code) == status_code = 401 \/ status_code = 403

BackoffUncapped(retries) == 2 ^ retries

BackoffLinear(retries) == retries + 1

\* min(30, (2 ** retries)); the jitter random.uniform(0, 1) added to it is left out
Backoff(retries) == Min(30, 2 ^ retries)

LoopGuardOffByOne(f) == f.retries <= f.max_retries + 1

\* line 139: while retries <= max_retries
LoopGuard(f) == f.retries <= f.max_retries

Dict(d) == [t |-> "dict", d |-> d]

\* response.json() of a response whose body is JSON; a body that is not JSON
\* makes it raise
ResponseJson(r) == r.body

\* lines 198-202
OtherErrors(status_code, response_data) ==
  Dict(("status" :> "FAILED") @@ ("status_code" :> status_code)
       @@ ("response_data" :> response_data))

\* lines 140-202: the try block of one loop iteration on response r.  The
\* result says how the iteration ends: "return" a value, "retry" after a
\* sleep, "sync" (sleep, get_server_time, retry) or "raise" an exception.
TryBlock(f, r) ==
  IF r.exc # ""
  THEN [act |-> "raise", exc |-> r.exc]
  ELSE IF r.status = 200
  THEN IF r.body.t = "text"
       THEN [act |-> "raise", exc |-> "JSONDecodeError"]
       ELSE [act |-> "return", value |-> ResponseJson(r)]
  ELSE
    LET response_data == IF r.body.t = "text" THEN Dict("error" :> "text") ELSE ResponseJson(r)
    IN  IF r.status = 400
        THEN IF response_data.t # "dict"
             THEN [act |-> "raise", exc |-> "AttributeError"]
             ELSE LET error_code == Get(response_data.d, "code", <<>>)
                      error_msg == Get(response_data.d, "msg", "Unknown error")
                  IN  IF IsDriftCode(error_code) /\ f.retries < f.max_retries
                      THEN [act |-> "sync", sleep |-> 1]
                      ELSE IF IsInvalidParamCode(error_code)
                      THEN [act |-> "return",
                            value |-> Dict(("status" :> "FAILED") @@ ("status_code" :> r.status)
                                           @@ ("error_code" :> error_code)
                                           @@ ("error_msg" :> error_msg)
                                           @@ ("response_data" :> response_data))]
                      ELSE [act |-> "return", value |-> OtherErrors(r.status, response_data)]
        ELSE IF IsAuthStatus(r.status)
        THEN [act |-> "return",
              value |-> Dict(("status" :> "FAILED") @@ ("status_code" :> r.status)
                             @@ ("error" :> IF r.status = 401 THEN "Authentication error"
                                                              ELSE "Access denied")
                             @@ ("response_data" :> response_data))]
        ELSE IF r.status = 429
        THEN [act |-> "retry", sleep |-> Backoff(f.retries)]
        ELSE IF r.status >= 500 /\ f.retries < f.max_retries
        THEN [act |-> "retry", sleep |-> Backoff(f.retries)]
        ELSE [act |-> "return", value |-> OtherErrors(r.status, response_data)]

\* the classes of requests.exceptions.RequestException among the exceptions raised
IsRequestException(exc) == exc \in {"Timeout", "ConnectionError"}

NoGenericHandler(exc) == FALSE

\* line 209: except Exception catches every exception the try block raises
IsException(exc) == exc \in {"Timeout", "ConnectionError", "JSONDecodeError", "AttributeError"}

\* lines 203-214: the except clauses
ExceptClauses(f, exc) ==
  IF IsRequestException(exc)
  THEN IF f.retries >= f.max_retries
       THEN [act |-> "return",
             value |-> Dict(("status" :> "FAILED") @@ ("error" :> <<"Request error: ", exc>>))]
       ELSE [act |-> "retry", sleep |-> Backoff(f.retries)]
  ELSE IF IsException(exc)
  THEN IF f.retries >= f.max_retries
       THEN [act |-> "return",
             value |-> Dict(("status" :> "FAILED") @@ ("error" :> <<"Unexpected error: ", exc>>))]
       ELSE [act |-> "retry", sleep |-> Backoff(f.retries)]
  ELSE [act |-> "raise", exc |-> exc]

\* lines 140-214: one iteration of the retry loop
Iteration(f, r) ==
  LET t == TryBlock(f, r)
  IN  IF t.act = "raise" THEN ExceptClauses(f, t.exc) ELSE t

\* line 215
MaxRetriesExceeded == Dict(("status" :> "FAILED") @@ ("error" :> "Max retries exceeded"))

----------------------------------------------------------------------------
(* The exchange and the network: what one HTTP attempt can come back with  *)

MaxDepth == 3

BodyText == [t |-> "text"]
BodyList == [t |-> "list"]
BodyOk == Dict(("code" :> <<"0", "0", "0", "0", "0">>) @@ ("msg" :> "success")
               @@ ("data" :> ("serverTime" :> ServerClock(attempts))))
BodyAppError == Dict(("code" :> <<"2", "2", "0", "0", "2">>) @@ ("msg" :> "No position to close"))
BodyErr(code) == Dict(("code" :> code) @@ ("msg" :> "m"))
BodyNoCode == Dict("msg" :> "m")

EnvDriftCodes == {<<"4", "0", "0", "0", "8">>}
EnvOtherCodes == {<<"4", "0", "0", "1", "7">>, <<"4", "0", "0", "2", "0">>, <<"4", "0", "7", "0", "6">>}

Http(status, body) == [exc |-> "", status |-> status, body |-> body]

\* The responses to a request whose activation is `depth` deep.  The time
\* endpoint answers with a clock-skew code only to requests less than
\* MaxDepth deep, which bounds the nesting of get_server_time.
Responses(depth) ==
  {[exc |-> "Timeout", status |-> 0, body |-> BodyText]}
  \cup {Http(200, b) : b \in {BodyOk, BodyAppError, BodyText}}
  \cup {Http(400, BodyErr(c)) : c \in IF depth < MaxDepth THEN EnvDriftCodes \cup EnvOtherCodes
                                                          ELSE EnvOtherCodes}
  \cup {Http(400, b) : b \in {BodyNoCode, BodyList, BodyText}}
  \cup {Http(st, BodyNoCode) : st \in {401, 403, 404, 429, 500}}

----------------------------------------------------------------------------
(* The logical call: entry points                                           *)

DefaultMaxRetries == 3

Call(entry, type, price, order_id, client_oid, margin_coin, max_retries) ==
  [entry |-> entry, type |-> type, price |-> price, order_id |-> order_id,
   client_oid |-> client_oid, margin_coin |-> margin_coin, max_retries |-> max_retries]

Calls ==
  {Call("place_bitget_order", tp[1], tp[2], None, None, None, DefaultMaxRetries)
     : tp \in {<<"MARKET", None>>, <<"LIMIT", None>>, <<"limit", (<<>>)>>}}
  \cup {Call("post_order", tp[1], tp[2], None, None, None, DefaultMaxRetries)
     : tp \in {<<"MARKET", None>>, <<"LIMIT", None>>, <<"LIMIT", (<<>>)>>, <<"LIMIT", (<<"100">>)>>}}
  \cup {Call("cancel_bitget_order", "MARKET", None, ids[1], ids[2], None, DefaultMaxRetries)
     : ids \in {<<None, None>>, <<(<<>>), (<<>>)>>, <<(<<"oid">>), None>>}}
  \cup {Call("delete_order", "MARKET", None, ids[1], ids[2], None, DefaultMaxRetries)
     : ids \in {<<None, None>>, <<(<<>>), None>>, <<None, (<<"coid">>)>>}}
  \cup {Call("get_all_positions", "MARKET", None, None, None, <<"usdt">>, DefaultMaxRetries)}
  \cup {Call("request", "MARKET", None, None, None, None, n) : n \in 0..(DefaultMaxRetries - 1)}

IsTool(entry) == entry \in {"place_bitget_order", "cancel_bitget_order"}

ReqInit ==
  /\ self = <<NewClient("key", "secret", "phrase")>>
  /\ call \in {<<c>> : c \in Calls}
  /\ pc = IF IsTool(call[1].entry) THEN "tool" ELSE "method"
  /\ stack = <<>>
  /\ attempts = <<>>
  /\ wire = <<>>
  /\ ret = <<>>
  /\ outcome = <<>>

\* What the entry point hands to its caller when the client call under it
\* ends with `result`.  The tools (mcp_server.py lines 118-134, 146-159)
\* serialise the value, and catch every exception into an error object.
Deliver(result) ==
  IF IsTool(call[1].entry)
  THEN [kind |-> "returned",
        value |-> [json |-> IF result.act = "return" THEN result.value
                            ELSE Dict("error" :> result.exc)]]
  ELSE IF result.act = "return"
  THEN [kind |-> "returned", value |-> result.value]
  ELSE [kind |-> "raised", exc |-> result.exc]

\* the entry point ends before any request was started
EndCall(result) ==
  /\ pc' = "done"
  /\ outcome' = <<Deliver(result)>>
  /\ UNCHANGED <<self, call, stack, attempts, wire, ret>>

\* the domain method calls self.request(...)
StartRequest(method, endpoint, params, body, max_retries) ==
  /\ stack' = <<request_prologue(LocalClock(attempts), method, endpoint, params, body, max_retries)>>
  /\ pc' = "loop"
  /\ UNCHANGED <<self, call, attempts, wire, ret, outcome>>

\* mcp_server.py line 122
ToolLimitPriceMissing(order_type, price) == Upper(order_type) = "LIMIT" /\ Falsy(price)

\* mcp_server.py lines 118-131, up to the call of client.post_order
place_bitget_order ==
  /\ pc = "tool" /\ call[1].entry = "place_bitget_order"
  /\ IF ToolLimitPriceMissing(call[1].type, call[1].price)
     THEN /\ pc' = "done"
          /\ outcome' = <<[kind |-> "returned",
                           value |-> [json |-> Dict("error" :> "Price is required for LIMIT orders")]]>>
          /\ UNCHANGED <<self, call, stack, attempts, wire, ret>>
     ELSE /\ pc' = "method"
          /\ UNCHANGED <<self, call, stack, attempts, wire, ret, outcome>>
  /\ UNCHANGED <<sigVars, concVars>>

\* mcp_server.py line 149
ToolIdsMissing(order_id, client_oid) == Falsy(order_id) /\ Falsy(client_oid)

\* mcp_server.py lines 146-156, up to the call of client.delete_order
cancel_bitget_order ==
  /\ pc = "tool" /\ call[1].entry = "cancel_bitget_order"
  /\ IF ToolIdsMissing(call[1].order_id, call[1].client_oid)
     THEN /\ pc' = "done"
          /\ outcome' = <<[kind |-> "returned",
                           value |-> [json |-> Dict("error" :> "Either order_id or client_oid is required")]]>>
          /\ UNCHANGED <<self, call, stack, attempts, wire, ret>>
     ELSE /\ pc' = "method"
          /\ UNCHANGED <<self, call, stack, attempts, wire, ret, outcome>>
  /\ UNCHANGED <<sigVars, concVars>>

LimitPriceNotChecked(type, price) == FALSE

\* bitget_trader.py lines 291-292
LimitPriceMissing(type, price) == Lower(type) = "limit" /\ Falsy(price)

\* BitgetAPI.post_order, called with symbol BTCUSDT, side BUY, quantity 1
post_order ==
  /\ pc = "method" /\ call[1].entry \in {"post_order", "place_bitget_order"}
  /\ LET type == call[1].type
         price == call[1].price
         order_data == << <<"symbol", <<"btcusdt">> >>, <<"productType", PRODUCT_TYPE>>,
                          <<"marginMode", <<"isolated">> >>, <<"marginCoin", <<"USDT">> >>,
                          <<"size", <<"1">> >>, <<"side", <<"buy">> >>,
                          <<"orderType", <<Lower(type)>> >> >>
                       \o (IF Lower(type) = "limit"
                           THEN << <<"price", price>>, <<"force", <<"gtc">> >> >> ELSE <<>>)
     IN  IF LimitPriceMissing(type, price)
         THEN EndCall([act |-> "raise", exc |-> "ValueError"])
         ELSE StartRequest("post", "api/v2/mix/order/place-order", <<>>, order_data,
                           DefaultMaxRetries)
  /\ UNCHANGED <<sigVars, concVars>>

\* bitget_trader.py line 321
IdsMissing(order_id, client_oid) == Falsy(order_id) /\ Falsy(client_oid)

\* BitgetAPI.delete_order, called with symbol BTCUSDT
delete_order ==
  /\ pc = "method" /\ call[1].entry \in {"delete_order", "cancel_bitget_order"}
  /\ LET order_id == call[1].order_id
         client_oid == call[1].client_oid
         body == << <<"symbol", <<"btcusdt">> >>, <<"productType", PRODUCT_TYPE>>,
                    <<"marginCoin", <<"USDT">> >> >>
                 \o (IF ~Falsy(order_id) THEN << <<"orderId", order_id>> >> ELSE <<>>)
                 \o (IF ~Falsy(client_oid) THEN << <<"clientOid", client_oid>> >> ELSE <<>>)
     IN  IF IdsMissing(order_id, client_oid)
         THEN EndCall([act |-> "raise", exc |-> "ValueError"])
         ELSE StartRequest("post", "api/v2/mix/order/cancel-order", <<>>, body,
                           DefaultMaxRetries)
  /\ UNCHANGED <<sigVars, concVars>>

\* BitgetAPI.get_all_positions
get_all_positions ==
  /\ pc = "method" /\ call[1].entry = "get_all_positions"
  /\ LET margin_coin == call[1].margin_coin
         params == << <<"productType", PRODUCT_TYPE>> >>
                   \o (IF ~Falsy(margin_coin)
                       THEN << <<"marginCoin", <<Upper(margin_coin[1])>> >> >> ELSE <<>>)
     IN  StartRequest("get", "api/v2/mix/position/all-position", params, <<>>,
                      DefaultMaxRetries)
  /\ UNCHANGED <<sigVars, concVars>>

\* a caller that invokes BitgetAPI.request itself, with its own max_retries
request_direct ==
  /\ pc = "method" /\ call[1].entry = "request"
  /\ StartRequest("get", "api/v2/mix/account/accounts",
                  << <<"productType", PRODUCT_TYPE>> >>, <<>>, call[1].max_retries)
  /\ UNCHANGED <<sigVars, concVars>>

----------------------------------------------------------------------------
(* The logical call: the retry loop of request, and get_server_time         *)

Top == stack[Len(stack)]

\* the attempt of the call's own request (not of a nested clock request) is recorded
Logged(f, r, step) ==
  IF Len(stack) = 1
  THEN Append(attempts,
              [req |-> [method |-> f.method, url |-> f.url, headers |-> f.headers,
                        body |-> f.body],
               resp |-> r,
               slept |-> IF step.act \in {"retry", "sync"} THEN <<step.sleep>> ELSE <<>>,
               synced |-> step.act = "sync"])
  ELSE attempts

\* the innermost request ends with `result`: the call is over, or the
\* get_server_time that started the request goes on
Finish(result) ==
  IF Len(stack) = 1
  THEN /\ stack' = <<>>
       /\ pc' = "done"
       /\ outcome' = <<Deliver(result)>>
       /\ ret' = ret
  ELSE /\ stack' = SubSeq(stack, 1, Len(stack) - 1)
       /\ pc' = "returned"
       /\ ret' = <<result>>
       /\ outcome' = outcome

\* requests.get / post / delete is called (lines 141-147): the round trip
\* of this attempt of the innermost request starts
Sent(w, f) == Append(w, [depth |-> Len(stack), attempt |-> f.retries + 1, endpoint |-> f.endpoint])

StillPending(w) == w

\* requests.get / post / delete comes back, with a response or an
\* exception: the round trip that was started last is over
Answered(w) == SubSeq(w, 1, Len(w) - 1)

\* the loop condition holds and the attempt is sent (lines 139-147)
request_sends ==
  /\ pc = "loop" /\ LoopGuard(Top)
  /\ wire' = Sent(wire, Top)
  /\ pc' = "wait"
  /\ UNCHANGED <<self, call, stack, attempts, ret, outcome>>
  /\ UNCHANGED <<sigVars, concVars>>

\* the rest of a loop iteration that ends the request: a return statement,
\* or an exception no except clause catches
request_attempt_ends ==
  /\ pc = "wait" /\ wire # <<>>
  /\ wire' = Answered(wire)
  /\ \E r \in Responses(Len(stack)) :
       LET step == Iteration(Top, r)
       IN  /\ step.act \in {"return", "raise"}
           /\ attempts' = Logged(Top, r, step)
           /\ Finish(step)
  /\ UNCHANGED <<self, call>>
  /\ UNCHANGED <<sigVars, concVars>>

\* the rest of a loop iteration that sleeps, adds one to retries and goes
\* round again
request_attempt_retries ==
  /\ pc = "wait" /\ wire # <<>>
  /\ wire' = Answered(wire)
  /\ pc' = "loop"
  /\ \E r \in Responses(Len(stack)) :
       LET step == Iteration(Top, r)
       IN  /\ step.act = "retry"
           /\ attempts' = Logged(Top, r, step)
           /\ stack' = [stack EXCEPT ![Len(stack)].retries = @ + 1]
  /\ UNCHANGED <<self, call, ret, outcome>>
  /\ UNCHANGED <<sigVars, concVars>>

\* the rest of a loop iteration on a rejected timestamp, up to the request
\* that get_server_time makes (lines 162-164, 219)
request_attempt_resyncs ==
  /\ pc = "wait" /\ wire # <<>>
  /\ wire' = Answered(wire)
  /\ pc' = "loop"
  /\ \E r \in Responses(Len(stack)) :
       LET step == Iteration(Top, r)
       IN  /\ step.act = "sync"
           /\ attempts' = Logged(Top, r, step)
           /\ stack' = Append(stack,
                              request_prologue(LocalClock(attempts'), "get", "api/v2/public/time",
                                               <<>>, <<>>, DefaultMaxRetries))
  /\ UNCHANGED <<self, call, ret, outcome>>
  /\ UNCHANGED <<sigVars, concVars>>

\* line 215: the loop condition fails
request_loop_exit ==
  /\ pc = "loop" /\ ~LoopGuard(Top)
  /\ attempts' = attempts
  /\ Finish([act |-> "return", value |-> MaxRetriesExceeded])
  /\ UNCHANGED <<self, call, wire>>
  /\ UNCHANGED <<sigVars, concVars>>

\* lines 220-224: what get_server_time returns for the outcome of its request
ServerTimeOf(result, now) ==
  IF /\ result.act = "return"
     /\ result.value.t = "dict"
     /\ "data" \in DOMAIN result.value.d
     /\ "serverTime" \in DOMAIN result.value.d["data"]
  THEN result.value.d["data"]["serverTime"]
  ELSE now

\* get_server_time returns, and the iteration that called it ends
\* (lines 164-166)
get_server_time_returns ==
  /\ pc = "returned"
  /\ stack' = [stack EXCEPT ![Len(stack)].timestamp = ServerTimeOf(ret[1], LocalClock(attempts)),
                            ![Len(stack)].retries = @ + 1]
  /\ pc' = "loop"
  /\ ret' = <<>>
  /\ UNCHANGED <<self, call, attempts, wire, outcome>>
  /\ UNCHANGED <<sigVars, concVars>>

Done == pc = "done"

SpecInit == ReqInit /\ SigIdle /\ ConcIdle

Next ==
  \/ place_bitget_order
  \/ cancel_bitget_order
  \/ post_order
  \/ delete_order
  \/ get_all_positions
  \/ request_direct
  \/ request_sends
  \/ request_attempt_ends
  \/ request_attempt_retries
  \/ request_attempt_resyncs
  \/ request_loop_exit
  \/ get_server_time_returns

Spec == SpecInit /\ [][Next]_vars

----------------------------------------------------------------------------
(* Signing two caller-supplied orderings of one parameter set              *)

MaxParams == 3

SigKeys == {<<"a">>, <<"b">>, <<"a", "b">>}
SigVals == {<<"1">>, <<"2">>}

\* the orderings of a finite set as sequences
Orderings(S) ==
  {s \in [1..Cardinality(S) -> S] : \A i, j \in 1..Cardinality(S) : i # j => s[i] # s[j]}

\* "k=v" pairs of a parameter mapping, joined with "&" in the order given
QueryOf(order, m) == Join([i \in 1..Len(order) |-> order[i] \o <<"=">> \o m[order[i]]], "&")

SigInputs ==
  UNION {
    UNION {
      { [secret |-> "secret", timestamp |-> ts, method |-> meth,
         path |-> <<"/", "api">>, body |-> <<>>,
         q1 |-> QueryOf(o1, m), q2 |-> QueryOf(o2, m)]
        : o1 \in Orderings(K), o2 \in Orderings(K), ts \in {7, 1234}, meth \in {"get", "GET"} }
      : m \in [K -> SigVals] }
    : K \in {K \in SUBSET SigKeys : Cardinality(K) <= MaxParams} }

SigInit == sig_in \in {<<i>> : i \in SigInputs} /\ sig_out1 = <<>> /\ sig_out2 = <<>>

SignFirst ==
  /\ sig_in # <<>> /\ sig_out1 = <<>>
  /\ sig_out1' = <<get_signature(sig_in[1].secret, sig_in[1].timestamp, sig_in[1].method,
                                 sig_in[1].path, sig_in[1].q1, sig_in[1].body)>>
  /\ UNCHANGED <<sig_in, sig_out2>>
  /\ UNCHANGED <<reqVars, concVars>>

SignSecond ==
  /\ sig_in # <<>> /\ sig_out2 = <<>>
  /\ sig_out2' = <<get_signature(sig_in[1].secret, sig_in[1].timestamp, sig_in[1].method,
                                 sig_in[1].path, sig_in[1].q2, sig_in[1].body)>>
  /\ UNCHANGED <<sig_in, sig_out1>>
  /\ UNCHANGED <<reqVars, concVars>>

SigNext == SignFirst \/ SignSecond

SigSpecInit == SigInit /\ ReqIdle /\ ConcIdle

SigSpec == SigSpecInit /\ [][SigNext]_vars

----------------------------------------------------------------------------
(* A caller of request that allows many retries, on an exchange that only  *)
(* answers with HTTP 429, HTTP 500 or not at all                            *)

MaxStormRetries == 6

StormResponses ==
  {[exc |-> "Timeout", status |-> 0, body |-> BodyText], Http(429, BodyNoCode), Http(500, BodyNoCode)}

StormOnly == \A i \in 1..Len(attempts) : attempts[i].resp \in StormResponses

StormInit ==
  /\ self = <<NewClient("key", "secret", "phrase")>>
  /\ call = <<Call("request", "MARKET", None, None, None, None, MaxStormRetries)>>
  /\ pc = "method"
  /\ stack = <<>>
  /\ attempts = <<>>
  /\ wire = <<>>
  /\ ret = <<>>
  /\ outcome = <<>>

StormSpecInit == StormInit /\ SigIdle /\ ConcIdle

StormNext ==
  \/ request_direct
  \/ request_sends
  \/ request_attempt_retries /\ StormOnly'
  \/ request_attempt_ends /\ StormOnly'
  \/ request_loop_exit

StormSpec == StormSpecInit /\ [][StormNext]_vars

----------------------------------------------------------------------------
(* Two callers run request on the one client at the same time              *)

MaxTicks == 2

Threads == {1, 2}

\* the requests of the two callers: the one get_all_positions makes, and a
\* cancellation by order id
ThreadCalls ==
  <<[method |-> "get", endpoint |-> "api/v2/mix/position/all-position",
     params |-> << <<"productType", PRODUCT_TYPE>> >>, body |-> <<>>],
    [method |-> "post", endpoint |-> "api/v2/mix/order/cancel-order", params |-> <<>>,
     body |-> << <<"symbol", <<"btcusdt">> >>, <<"orderId", <<"oid">> >> >>]>>

SameObject(d) == [obj |-> "self.headers", d |-> d]

\* line 119: self.headers.copy() is a new dict with the items of d, which
\* the local name headers then refers to
Copy(d) == [obj |-> "local", d |-> d]

\* the dict a name refers to
Deref(ref) == IF ref.obj = "local" THEN ref.d ELSE self[1].headers

ConcInit ==
  /\ self = <<NewClient("key", "secret", "phrase")>>
  /\ call = <<>> /\ pc = "idle" /\ stack = <<>> /\ attempts = <<>> /\ wire = <<>>
  /\ ret = <<>> /\ outcome = <<>>
  /\ threads = [t \in Threads |-> [pc |-> "time", timestamp |-> <<>>, headers |-> <<>>,
                                   retries |-> 0, sent |-> <<>>]]
  /\ clock = 1000

ConcSpecInit == ConcInit /\ SigIdle /\ tool = <<>> /\ AgentIdle

\* a millisecond passes
tick ==
  /\ clock < 1000 + MaxTicks
  /\ clock' = clock + 1
  /\ UNCHANGED <<threads, tool, agentVars, sigVars, reqVars>>

\* line 118: timestamp = int(time.time() * 1000)
thread_reads_clock(t) ==
  /\ threads[t].pc = "time"
  /\ threads' = [threads EXCEPT ![t].timestamp = <<clock>>, ![t].pc = "copy"]
  /\ UNCHANGED <<clock, tool, agentVars, sigVars, reqVars>>

\* line 119: headers = self.headers.copy()
thread_copies_headers(t) ==
  /\ threads[t].pc = "copy"
  /\ threads' = [threads EXCEPT ![t].headers = <<Copy(self[1].headers)>>, ![t].pc = "stamp"]
  /\ UNCHANGED <<clock, tool, agentVars, sigVars, reqVars>>

\* headers[key] = value, in the dict that caller t's headers refers to
Store(t, key, value, next) ==
  LET ref == threads[t].headers[1]
  IN  /\ IF ref.obj = "local"
         THEN /\ threads' = [threads EXCEPT ![t].headers = <<[ref EXCEPT !.d = (key :> value) @@ @]>>,
                                            ![t].pc = next]
              /\ self' = self
         ELSE /\ threads' = [threads EXCEPT ![t].pc = next]
              /\ self' = [self EXCEPT ![1].headers = (key :> value) @@ @]
      /\ UNCHANGED <<clock, tool, agentVars, sigVars, call, pc, stack, attempts, wire, ret, outcome>>

\* line 120: headers['ACCESS-TIMESTAMP'] = str(timestamp)
thread_stamps(t) ==
  /\ threads[t].pc = "stamp"
  /\ Store(t, "ACCESS-TIMESTAMP", IntToStr(threads[t].timestamp[1]), "sign")

\* lines 121-135: the signature of the caller's request, put into headers
thread_signs(t) ==
  /\ threads[t].pc = "sign"
  /\ LET c == ThreadCalls[t]
         signature == request_prologue(threads[t].timestamp[1], c.method, c.endpoint, c.params,
                                       c.body, DefaultMaxRetries).headers["ACCESS-SIGN"]
     IN  Store(t, "ACCESS-SIGN", signature, "loop")

\* lines 139-202: an attempt is sent with headers, and its response ends the call
thread_attempt_ends(t) ==
  /\ threads[t].pc = "loop" /\ threads[t].retries <= DefaultMaxRetries
  /\ threads' = [threads EXCEPT ![t].sent = Append(@, Deref(threads[t].headers[1])),
                                ![t].pc = "done"]
  /\ UNCHANGED <<clock, tool, agentVars, sigVars, reqVars>>

\* lines 139-214: an attempt is sent with headers, and is to be retried
thread_attempt_retries(t) ==
  /\ threads[t].pc = "loop" /\ threads[t].retries <= DefaultMaxRetries
  /\ threads' = [threads EXCEPT ![t].sent = Append(@, Deref(threads[t].headers[1])),
                                ![t].retries = @ + 1]
  /\ UNCHANGED <<clock, tool, agentVars, sigVars, reqVars>>

\* line 215
thread_loop_exit(t) ==
  /\ threads[t].pc = "loop" /\ threads[t].retries > DefaultMaxRetries
  /\ threads' = [threads EXCEPT ![t].pc = "done"]
  /\ UNCHANGED <<clock, tool, agentVars, sigVars, reqVars>>

ConcNext ==
  \/ tick
  \/ \E t \in Threads : thread_reads_clock(t)
  \/ \E t \in Threads : thread_copies_headers(t)
  \/ \E t \in Threads : thread_stamps(t)
  \/ \E t \in Threads : thread_signs(t)
  \/ \E t \in Threads : thread_attempt_ends(t)
  \/ \E t \in Threads : thread_attempt_retries(t)
  \/ \E t \in Threads : thread_loop_exit(t)

ConcSpec == ConcSpecInit /\ [][ConcNext]_vars

----------------------------------------------------------------------------
(* Requests with caller-supplied parameter mappings and bodies             *)

QueryKeys == {"a", "b", "productType"}
QueryVals == {<<"1">>, <<"2", "&", "1">>}

\* the dicts over keys K, each in every insertion order, as <<key, value>> items
ParamDicts(K) ==
  UNION {{[i \in 1..Len(o) |-> <<o[i], m[o[i]]>>] : o \in Orderings(K)} : m \in [K -> QueryVals]}

QueryBodies == {<<>>, << <<"symbol", <<"btcusdt">> >> >>}

QueryCalls ==
  UNION {{[entry |-> "request", max_retries |-> 0, method |-> m, params |-> p, body |-> b]
          : p \in ParamDicts(K), m \in {"get", "post", "delete"}, b \in QueryBodies}
         : K \in SUBSET QueryKeys}

QueryInit ==
  /\ self = <<NewClient("key", "secret", "phrase")>>
  /\ call \in {<<c>> : c \in QueryCalls}
  /\ pc = "method"
  /\ stack = <<>>
  /\ attempts = <<>>
  /\ wire = <<>>
  /\ ret = <<>>
  /\ outcome = <<>>

QuerySpecInit == QueryInit /\ SigIdle /\ ConcIdle

\* a caller invokes BitgetAPI.request with its method, params and body
request_with_params ==
  /\ pc = "method" /\ call[1].entry = "request"
  /\ StartRequest(call[1].method, "api/v2/mix/market/ticker", call[1].params, call[1].body,
                  call[1].max_retries)
  /\ UNCHANGED <<sigVars, concVars>>

QueryNext ==
  \/ request_with_params
  \/ request_sends
  \/ request_attempt_ends
  \/ request_attempt_retries
  \/ request_loop_exit

QuerySpec == QuerySpecInit /\ [][QueryNext]_vars

----------------------------------------------------------------------------
(* The tools that close positions (mcp_server.py)                          *)

MaxPositions == 2

OkCode == <<"0", "0", "0", "0", "0">>

\* one element of the data list of the all-position endpoint; the exchange
\* sends marginCoin too, it is left out so that the tools' default is used
Position(symbol, total, holdSide) ==
  ("symbol" :> symbol) @@ ("total" :> total) @@ ("holdSide" :> holdSide)
  @@ ("marginMode" :> "crossed")

PositionKinds ==
  {Position(sy, t, h) : sy \in {"BTCUSDT", "ETHUSDT"}, t \in {"0", "2"}, h \in {"long", "short", "net"}}
  \cup {("symbol" :> "BTCUSDT") @@ ("holdSide" :> "long")}

PositionLists == UNION {[1..n -> PositionKinds] : n \in 0..MaxPositions}

\* the responses that end request with a FAILED dict, seen from the last
\* iteration of its loop
FailedResponses ==
  {r \in Responses(MaxDepth) :
     /\ r.exc # "" \/ r.status # 200
     /\ Iteration([retries |-> 0, max_retries |-> 0], r).act = "return"}

\* lines 152-214 of bitget_trader.py: the FAILED dict request returns on r
FailedOutcome(r) == Iteration([retries |-> 0, max_retries |-> 0], r).value

\* the JSON of a 200 response to get_all_positions: a dict with or without
\* data, whatever its code, or a list
PositionsJson ==
  {Dict(("code" :> OkCode) @@ ("msg" :> "success") @@ ("data" :> data)) : data \in PositionLists}
  \cup {Dict(("code" :> <<"4", "0", "0", "3", "7">>) @@ ("msg" :> "m")
              @@ ("data" :> <<Position("BTCUSDT", "2", "long")>>)),
         Dict(("code" :> OkCode) @@ ("msg" :> "success")),
         BodyList}

\* the JSON of a 200 response to post_order
OrderJson == {Dict(("code" :> OkCode) @@ ("msg" :> "success")), BodyAppError, BodyList}

\* float(s) of the decimal strings the exchange sends as sizes
ToFloat(s) == CASE s = "0" -> 0 [] s = "2" -> 2

DataPresent(positions) == positions.t = "dict" /\ "data" \in DOMAIN positions.d

\* lines 220 and 287, negated: the positions response can be used
FetchOk(positions) ==
  /\ positions.t = "dict"
  /\ "data" \in DOMAIN positions.d
  /\ Get(positions.d, "code", None) = OkCode

AnyPosition(pos) == TRUE

\* lines 225-227, 291-293: total > 0 and hold_side in ["long", "short"]
IsActive(pos) ==
  ToFloat(Get(pos, "total", "0")) > 0 /\ Get(pos, "holdSide", "") \in {"long", "short"}

\* lines 237, 303
CloseSide(hold_side) == IF hold_side = "long" THEN "sell" ELSE "buy"

\* lines 239-247, 305-313: the arguments of client.post_order
CloseOrder(pos) ==
  [symbol |-> Get(pos, "symbol", ""), side |-> Upper(CloseSide(Get(pos, "holdSide", ""))),
   quantity |-> Get(pos, "total", "0"), type |-> "MARKET", reduce_only |-> TRUE,
   margin_mode |-> Get(pos, "marginMode", "isolated"),
   margin_coin |-> Get(pos, "marginCoin", "USDT")]

\* lines 255, 325: close_order.get("code") == "00000"
OrderSucceeded(close_order) == Get(close_order.d, "code", None) = OkCode

\* lines 248-263: the entry appended to close_orders for pos and the
\* result of its order; close_order.get on a value that is no dict raises
CloseEntry(pos, close_order) ==
  IF close_order.t = "dict"
  THEN ("symbol" :> Get(pos, "symbol", "")) @@ ("position_size" :> Get(pos, "total", "0"))
       @@ ("hold_side" :> Get(pos, "holdSide", ""))
       @@ ("close_side" :> CloseSide(Get(pos, "holdSide", "")))
       @@ ("margin_mode" :> Get(pos, "marginMode", "isolated"))
       @@ ("close_order" :> close_order) @@ ("success" :> OrderSucceeded(close_order))
  ELSE ("symbol" :> Get(pos, "symbol", "")) @@ ("position_size" :> Get(pos, "total", "0"))
       @@ ("error" :> "AttributeError") @@ ("position_data" :> pos)

\* lines 264-265: o.get("success") == True
SuccessIsTrue(o) == "success" \in DOMAIN o /\ o["success"]

ReportWithoutRaised(active_positions, close_orders) ==
  ("action" :> "close_all_positions")
  @@ ("total_positions_found" :> Len(active_positions))
  @@ ("successful_orders" :>
        Cardinality({i \in 1..Len(close_orders) : SuccessIsTrue(close_orders[i])}))
  @@ ("failed_orders" :>
        Cardinality({i \in 1..Len(close_orders) :
                       "success" \in DOMAIN close_orders[i] /\ ~close_orders[i]["success"]}))
  @@ ("close_orders" :> close_orders)

\* lines 264-272: the report of close_all_bitget_positions_correct
CloseAllReport(active_positions, close_orders) ==
  ("action" :> "close_all_positions")
  @@ ("total_positions_found" :> Len(active_positions))
  @@ ("successful_orders" :>
        Cardinality({i \in 1..Len(close_orders) : SuccessIsTrue(close_orders[i])}))
  @@ ("failed_orders" :>
        Cardinality({i \in 1..Len(close_orders) :
                       \/ "error" \in DOMAIN close_orders[i]
                       \/ ~SuccessIsTrue(close_orders[i])}))
  @@ ("close_orders" :> close_orders)

\* lines 289-296: the first position of the symbol that is open
TargetPosition(data, symbol) ==
  LET hits == {i \in 1..Len(data) :
                 /\ Upper(Get(data[i], "symbol", "")) = Upper(symbol)
                 /\ IsActive(data[i])}
  IN  IF hits = {} THEN <<>>
      ELSE <<data[CHOOSE i \in hits : \A j \in hits : i <= j]>>

\* lines 314-327: the report of close_bitget_position_correct; the outer
\* except turns close_order.get on a value that is no dict into an error
ClosePositionReport(pos, close_order) ==
  IF close_order.t = "dict"
  THEN ("action" :> "position_closed") @@ ("symbol" :> Get(pos, "symbol", ""))
       @@ ("position_size" :> Get(pos, "total", "0"))
       @@ ("hold_side" :> Get(pos, "holdSide", ""))
       @@ ("close_side" :> CloseSide(Get(pos, "holdSide", "")))
       @@ ("margin_mode" :> Get(pos, "marginMode", "isolated"))
       @@ ("margin_coin" :> Get(pos, "marginCoin", "USDT"))
       @@ ("original_position" :> pos) @@ ("close_order" :> close_order)
       @@ ("success" :> OrderSucceeded(close_order))
  ELSE ("error" :> "AttributeError")

\* the tool calls an agent can make
ToolCalls ==
  {[name |-> "close_all_bitget_positions_correct", symbol |-> ""]}
  \cup {[name |-> "close_bitget_position_correct", symbol |-> sy] : sy \in {"btcusdt", "ETHUSDT"}}

\* a tool call before its first statement: positions, active_positions,
\* close_orders are the locals, placed logs the calls of client.post_order
CloseInit ==
  \E c \in ToolCalls :
    tool = <<[name |-> c.name, symbol |-> c.symbol, pc |-> "fetch", positions |-> <<>>,
              active_positions |-> <<>>, close_orders |-> <<>>, placed |-> <<>>,
              result |-> <<>>]>>

CloseSpecInit == CloseInit /\ SigIdle /\ ReqIdle /\ threads = <<>> /\ clock = 0 /\ AgentIdle

Returns(t, value) == [t EXCEPT !.pc = "done", !.result = <<value>>]

\* lines 220-230: the check of the positions response and the filter
CloseAllFetched(positions) ==
  LET t == [tool[1] EXCEPT !.positions = <<positions>>]
  IN  IF ~FetchOk(positions)
      THEN tool' = <<Returns(t, ("error" :> "Failed to get positions")
                                @@ ("response" :> positions))>>
      ELSE LET active_positions == SelectSeq(positions.d["data"], IsActive)
           IN  IF active_positions = <<>>
               THEN tool' = <<Returns(t, "message" :> "No open positions to close")>>
               ELSE tool' = <<[t EXCEPT !.pc = "order",
                                        !.active_positions = active_positions]>>

\* lines 217-230: get_all_positions answers with JSON or with a FAILED dict
close_all_fetches ==
  /\ tool # <<>>
  /\ tool[1].name = "close_all_bitget_positions_correct"
  /\ tool[1].pc = "fetch"
  /\ \/ \E positions \in PositionsJson : CloseAllFetched(positions)
     \/ \E r \in FailedResponses : CloseAllFetched(FailedOutcome(r))
     \/ CloseAllFetched(MaxRetriesExceeded)
  /\ UNCHANGED <<sigVars, reqVars, threads, clock, agentVars>>

\* lines 248-272: the entry of close_orders for the order's result, and the
\* report after the last turn of the loop
CloseAllOrdered(close_order) ==
  LET pos == tool[1].active_positions[Len(tool[1].close_orders) + 1]
      t == [tool[1] EXCEPT !.placed = Append(@, CloseOrder(pos)),
                           !.close_orders = Append(@, CloseEntry(pos, close_order))]
  IN  IF Len(t.close_orders) < Len(t.active_positions)
      THEN tool' = <<t>>
      ELSE tool' = <<Returns(t, CloseAllReport(t.active_positions, t.close_orders))>>

\* lines 231-272: one turn of the loop over active_positions
close_all_orders ==
  /\ tool # <<>>
  /\ tool[1].name = "close_all_bitget_positions_correct"
  /\ tool[1].pc = "order"
  /\ \/ \E close_order \in OrderJson : CloseAllOrdered(close_order)
     \/ \E r \in FailedResponses : CloseAllOrdered(FailedOutcome(r))
     \/ CloseAllOrdered(MaxRetriesExceeded)
  /\ UNCHANGED <<sigVars, reqVars, threads, clock, agentVars>>

\* lines 287-298: the check of the positions response and the search
CloseOneFetched(positions) ==
  LET t == [tool[1] EXCEPT !.positions = <<positions>>]
  IN  IF ~FetchOk(positions)
      THEN tool' = <<Returns(t, "error" :> "Failed to get positions")>>
      ELSE LET target_position == TargetPosition(positions.d["data"], tool[1].symbol)
           IN  IF target_position = <<>>
               THEN tool' = <<Returns(t, "message" :> "No open position found")>>
               ELSE tool' = <<[t EXCEPT !.pc = "order",
                                        !.active_positions = target_position]>>

\* lines 284-298: get_all_positions answers with JSON or with a FAILED dict
close_one_fetches ==
  /\ tool # <<>>
  /\ tool[1].name = "close_bitget_position_correct"
  /\ tool[1].pc = "fetch"
  /\ \/ \E positions \in PositionsJson : CloseOneFetched(positions)
     \/ \E r \in FailedResponses : CloseOneFetched(FailedOutcome(r))
     \/ CloseOneFetched(MaxRetriesExceeded)
  /\ UNCHANGED <<sigVars, reqVars, threads, clock, agentVars>>

\* lines 305-327: the report for the order's result
CloseOneOrdered(close_order) ==
  LET pos == tool[1].active_positions[1]
      t == [tool[1] EXCEPT !.placed = Append(@, CloseOrder(pos))]
  IN  tool' = <<Returns(t, ClosePositionReport(pos, close_order))>>

\* lines 299-327: the close order of the target position
close_one_orders ==
  /\ tool # <<>>
  /\ tool[1].name = "close_bitget_position_correct"
  /\ tool[1].pc = "order"
  /\ \/ \E close_order \in OrderJson : CloseOneOrdered(close_order)
     \/ \E r \in FailedResponses : CloseOneOrdered(FailedOutcome(r))
     \/ CloseOneOrdered(MaxRetriesExceeded)
  /\ UNCHANGED <<sigVars, reqVars, threads, clock, agentVars>>

CloseNext == close_all_fetches \/ close_all_orders \/ close_one_fetches \/ close_one_orders

CloseSpec == CloseSpecInit /\ [][CloseNext]_vars

----------------------------------------------------------------------------
(* The research workflow (operator/crypto_research)                        *)
(*                                                                         *)
(* The workflow state is the dict the nodes pass on.  Scores are counted    *)
(* in tenths (8.5 is 85).  A key that may be absent holds a sequence of     *)
(* length zero or one.  Texts are named by what produced them.  Fields that *)
(* no node branches on (prompts, data_quality, tools_used) are left out.    *)
(* step_callback is None, as DeepResearchService creates the roles.         *)

MaxIterations == 3

FinalizeScore == 85

DefaultScore == 50

\* workflow.py lines 149-168: initial_state
InitialState ==
  [iteration |-> 0, max_iterations |-> MaxIterations, should_continue |-> <<>>,
   last_node |-> "", average_score |-> <<>>,
   listener_result |-> [kind |-> "empty", required_data_sources |-> "list", error |-> FALSE],
   planner_result |-> [kind |-> "empty", sub_questions |-> <<>>, error |-> FALSE,
                       is_initial_plan |-> FALSE, is_adjusted_plan |-> FALSE],
   researcher_result |-> [kind |-> "empty", collected_data |-> <<>>, analysis |-> "",
                          research_mode |-> "", error |-> FALSE],
   reviewer_result |-> [kind |-> "empty", average_score |-> 0, error |-> FALSE,
                        iteration |-> 0, research_mode |-> ""],
   analysis_history |-> <<>>, feedback_history |-> <<>>, scores_history |-> <<>>,
   final_result |-> <<>>]

\* what the listener's agent answers: the classification call raises, or
\* classifies; the understanding call raises or yields no JSON, or yields
\* JSON whose required_data_sources is a list of strings or null
ListenerAnswers ==
  [classification : {"raise", "simple_query", "research_question"},
   understanding : {"raise", "list", "null"}]

\* listener.py lines 105-180
ListenerProcess(state, answer) ==
  IF answer.classification = "raise" \/ (answer.classification # "simple_query"
                                         /\ answer.understanding = "raise")
  THEN [state EXCEPT !.listener_result = [kind |-> "default", required_data_sources |-> "list",
                                          error |-> TRUE],
                     !.should_continue = <<TRUE>>]
  ELSE IF answer.classification = "simple_query"
  THEN [state EXCEPT !.should_continue = <<FALSE>>]
  ELSE [state EXCEPT !.listener_result = [kind |-> "understood",
                                          required_data_sources |-> answer.understanding,
                                          error |-> FALSE],
                     !.should_continue = <<TRUE>>]

\* what the listener made of its agent's answers, as the trace records it
ListenerOutcome(answer) ==
  IF answer.classification = "raise" THEN "classification_error"
  ELSE IF answer.classification = "simple_query" THEN "simple_query"
  ELSE IF answer.understanding = "raise" THEN "understanding_error"
  ELSE "understood"

AlwaysContinue(state) == "continue"

\* listener.py lines 182-186: state.get("should_continue", True)
should_continue(state) ==
  IF state.should_continue = <<>> \/ state.should_continue[1] THEN "continue" ELSE "stop"

ReplierWithoutFallback(state, answer) ==
  IF answer = "raise" THEN state ELSE [state EXCEPT !.final_result = <<"simple_response">>]

\* replier.py lines 51-71: the agent answers with a text, or the call raises
ReplierProcess(state, answer) ==
  IF answer = "raise"
  THEN [state EXCEPT !.final_result = <<"reply_fallback">>]
  ELSE [state EXCEPT !.final_result = <<"simple_response">>]

\* an element of a plan's sub_questions: a JSON object with a question, or
\* a bare JSON string
SubQuestion(question) == [t |-> "dict", question |-> question]
BareString(question) == [t |-> "str", question |-> question]

\* what the planner's agent answers: the call raises or yields no JSON, or
\* yields a JSON object whose sub_questions is absent, null or a list
PlannerAnswers ==
  {[t |-> "raise", sub_questions |-> <<>>], [t |-> "absent", sub_questions |-> <<>>],
   [t |-> "null", sub_questions |-> <<>>],
   [t |-> "list", sub_questions |-> <<SubQuestion("q1"), SubQuestion("q2")>>],
   [t |-> "list", sub_questions |-> <<BareString("q1")>>]}

\* planner.py lines 139-198: _initial_plan; len(None) at line 164 raises
\* inside the try
InitialPlan(state, answer) ==
  [state EXCEPT
     !.planner_result =
        IF answer.t \in {"raise", "null"}
        THEN [kind |-> "plan", sub_questions |-> <<SubQuestion("understood_query")>>,
              error |-> TRUE, is_initial_plan |-> TRUE, is_adjusted_plan |-> FALSE]
        ELSE [kind |-> "plan", sub_questions |-> answer.sub_questions,
              error |-> FALSE, is_initial_plan |-> TRUE, is_adjusted_plan |-> FALSE],
     !.last_node = "plan"]

DropsPlanOnError(state, answer) ==
  [state EXCEPT
     !.planner_result = [kind |-> "plan", sub_questions |-> <<>>, error |-> TRUE,
                         is_initial_plan |-> FALSE, is_adjusted_plan |-> TRUE],
     !.last_node = "re_plan"]

\* planner.py lines 200-336: _replan; q.get at lines 312-313 raises inside
\* the try on an element that is no object, and iterating null raises too
Replan(state, answer) ==
  LET original_plan == state.planner_result
      raises == \/ answer.t \in {"raise", "null"}
                \/ \E i \in 1..Len(answer.sub_questions) : answer.sub_questions[i].t # "dict"
  IN  [state EXCEPT
         !.planner_result =
            IF raises
            THEN [original_plan EXCEPT !.error = TRUE, !.is_adjusted_plan = TRUE]
            ELSE [kind |-> "plan",
                  sub_questions |-> IF answer.t = "absent" THEN original_plan.sub_questions
                                                           ELSE answer.sub_questions,
                  error |-> FALSE, is_initial_plan |-> FALSE, is_adjusted_plan |-> TRUE],
         !.last_node = "re_plan"]

\* planner.py lines 61-63, reporter.py line 59: the prompt joins
\* required_data_sources, outside every try, which raises unless it is a
\* list of strings
PromptRaises(state) == state.listener_result.required_data_sources # "list"

\* planner.py line 24
IsReplanning(state) == state.last_node = "re_plan" \/ state.iteration > 0

\* planner.py lines 19-31
PlannerProcess(state, answer) ==
  IF IsReplanning(state) THEN Replan(state, answer) ELSE InitialPlan(state, answer)

\* researcher.py line 23
IsAdditional(state) == state.last_node = "re_research" \/ state.iteration > 0

\* researcher.py lines 30-37
ResearchMode(state) == IF IsAdditional(state) THEN "additional" ELSE "initial"

\* researcher.py lines 40-42: sub_q.get on an element that is no object
\* raises outside every try
FormatRaises(sub_questions) == \E i \in 1..Len(sub_questions) : sub_questions[i].t # "dict"

\* researcher.py lines 81-178: what a coroutine of _research_sub_question
\* returns when its agent call answers or raises
SubQuestionResult(sub_q, answer) ==
  IF answer = "raise"
  THEN [question |-> sub_q.question, error |-> TRUE, results |-> "Research failed"]
  ELSE [question |-> sub_q.question, error |-> FALSE, results |-> "research_content"]

AnalyzeWithoutErrorHistory(state, collected_data, research_mode, answer) ==
  LET analysis == IF answer = "raise" THEN "error_analysis" ELSE "analysis_content"
  IN  [state EXCEPT
         !.researcher_result = [kind |-> "research", collected_data |-> collected_data,
                                analysis |-> analysis, research_mode |-> research_mode,
                                error |-> (answer = "raise")],
         !.analysis_history = IF answer = "raise" THEN @ ELSE Append(@, analysis)]

\* researcher.py lines 180-294: _analyze_crypto_data
AnalyzeCryptoData(state, collected_data, research_mode, answer) ==
  LET analysis == IF answer = "raise" THEN "error_analysis" ELSE "analysis_content"
  IN  [state EXCEPT
         !.researcher_result = [kind |-> "research", collected_data |-> collected_data,
                                analysis |-> analysis, research_mode |-> research_mode,
                                error |-> (answer = "raise")],
         !.analysis_history = Append(@, analysis)]

\* what the reviewer's agent answers: the call raises or yields no JSON, or
\* yields an evaluation with five scores (their mean, in tenths) and an
\* average_score of its own that is absent, a number, or no number
ReviewerAnswers ==
  {[t |-> "raise", mean |-> 0, average |-> "absent", average_score |-> 0]}
  \cup {[t |-> "json", mean |-> m, average |-> "absent", average_score |-> 0] : m \in {60, 90}}
  \cup {[t |-> "json", mean |-> 60, average |-> "number", average_score |-> a] : a \in {0, 90}}
  \cup {[t |-> "json", mean |-> 90, average |-> "number", average_score |-> 60],
         [t |-> "json", mean |-> 90, average |-> "text", average_score |-> 0]}

\* reviewer.py lines 163-164 and 224: the evaluation's own average_score
\* unless it is absent or 0
EvaluationAverage(answer) ==
  IF answer.average = "absent" \/ answer.average_score = 0 THEN answer.mean
  ELSE answer.average_score

\* reviewer.py lines 125-295: process; formatting an average_score that is
\* no number with .1f at line 173 raises inside the try
ReviewerProcess(state, answer) ==
  LET iteration == state.iteration
      failed == answer.t = "raise" \/ answer.average = "text"
      research_mode == IF state.researcher_result.kind = "empty" THEN "initial"
                       ELSE state.researcher_result.research_mode
  IN  [state EXCEPT
         !.reviewer_result =
            [kind |-> "review",
             average_score |-> IF failed THEN DefaultScore ELSE EvaluationAverage(answer),
             error |-> failed, iteration |-> iteration, research_mode |-> research_mode],
         !.feedback_history =
            Append(@, [text |-> IF failed THEN "error_feedback" ELSE "formatted_feedback",
                       iteration |-> iteration + 1]),
         !.scores_history =
            Append(@, [iteration |-> iteration + 1,
                       average_score |-> IF failed THEN DefaultScore ELSE answer.mean,
                       error |-> failed]),
         !.average_score = <<IF failed THEN DefaultScore ELSE EvaluationAverage(answer)>>,
         !.iteration = iteration + 1,
         !.last_node = "review"]

ImproveWhileBelowScore(state) ==
  IF state.average_score # <<>> /\ state.average_score[1] >= FinalizeScore THEN "finalize"
  ELSE "improve"

\* reviewer.py lines 302-313: _should_improve
should_improve(state) ==
  LET average_score == IF state.average_score = <<>> THEN 0 ELSE state.average_score[1]
  IN  IF state.iteration >= state.max_iterations THEN "finalize"
      ELSE IF average_score >= FinalizeScore THEN "finalize"
      ELSE "improve"

\* reporter.py lines 122-200: process, when it does not raise
ReporterProcess(state, answer) ==
  [state EXCEPT !.final_result = <<IF answer = "raise" THEN "fallback_report" ELSE "report_content">>,
                !.last_node = "report"]

\* researcher.py lines 49-52: one coroutine per sub-question, in plan order
ResearchTasks(sub_questions) ==
  [i \in 1..Len(sub_questions) |->
     [sub_q |-> sub_questions[i], result |-> <<>>, finished |-> 0]]

AllDone(ts) == \A i \in 1..Len(ts) : ts[i].result # <<>>

\* the results in the order in which the coroutines finished
GatherAsCompleted(ts) ==
  [k \in 1..Len(ts) |-> (ts[CHOOSE i \in 1..Len(ts) : ts[i].finished = k]).result[1]]

\* researcher.py lines 54-66: asyncio.gather hands back the results in the
\* order of its arguments
Gather(ts) == [i \in 1..Len(ts) |-> ts[i].result[1]]

\* the run of execute: node is the node the graph runs next, at tells where
\* inside a node that awaits several coroutines the run is, trace lists the
\* nodes run with the mode the planner or researcher ran in
Run(node, state, trace) ==
  [node |-> node, at |-> "node", state |-> state, trace |-> trace, result |-> <<>>]

Traced(f, mode) == Append(f.trace, [node |-> f.node, mode |-> mode])

AtNode(names) ==
  /\ flow # <<>>
  /\ flow[1].node \in names
  /\ flow[1].at = "node"

\* workflow.py line 149: a call of execute before its first statement
FlowInit == flow = <<Run("start", InitialState, <<>>)>> /\ tasks = <<>>

FlowSpecInit ==
  FlowInit /\ SigIdle /\ ReqIdle /\ threads = <<>> /\ clock = 0 /\ tool = <<>> /\ mcp = <<>>

\* workflow.py lines 129-172: the session and the agents are set up, which
\* can raise, and the graph is entered at listen (line 114)
execute_starts ==
  /\ AtNode({"start"})
  /\ \E ok \in BOOLEAN :
       flow' = <<[flow[1] EXCEPT !.node = IF ok THEN "listen" ELSE "raised"]>>
  /\ UNCHANGED <<sigVars, reqVars, threads, clock, tool, tasks, mcp>>

\* workflow.py lines 74, 86-93: node listen and its conditional edge
listen ==
  /\ AtNode({"listen"})
  /\ \E answer \in ListenerAnswers :
       LET state == ListenerProcess(flow[1].state, answer)
       IN  flow' = <<[flow[1] EXCEPT
                        !.state = state,
                        !.trace = Traced(flow[1], ListenerOutcome(answer)),
                        !.node = IF should_continue(state) = "continue" THEN "plan"
                                                                        ELSE "reply"]>>
  /\ UNCHANGED <<sigVars, reqVars, threads, clock, tool, tasks, mcp>>

\* workflow.py line 75: node reply, which has no edge out
reply ==
  /\ AtNode({"reply"})
  /\ \E answer \in {"raise", "text"} :
       flow' = <<[flow[1] EXCEPT !.state = ReplierProcess(flow[1].state, answer),
                                 !.trace = Traced(flow[1], ""),
                                 !.node = "END"]>>
  /\ UNCHANGED <<sigVars, reqVars, threads, clock, tool, tasks, mcp>>

\* workflow.py lines 76, 96: node plan and its edge to research
plan ==
  /\ AtNode({"plan"})
  /\ \E answer \in PlannerAnswers :
       IF ~IsReplanning(flow[1].state) /\ PromptRaises(flow[1].state)
       THEN flow' = <<[flow[1] EXCEPT !.trace = Traced(flow[1], "initial"), !.node = "raised"]>>
       ELSE flow' = <<[flow[1] EXCEPT
                         !.state = PlannerProcess(flow[1].state, answer),
                         !.trace = Traced(flow[1], IF IsReplanning(flow[1].state) THEN "replan"
                                                                                 ELSE "initial"),
                         !.node = "research"]>>
  /\ UNCHANGED <<sigVars, reqVars, threads, clock, tool, tasks, mcp>>

\* workflow.py lines 82, 110: node re_plan and its edge to re_research
re_plan ==
  /\ AtNode({"re_plan"})
  /\ \E answer \in PlannerAnswers :
       IF ~IsReplanning(flow[1].state) /\ PromptRaises(flow[1].state)
       THEN flow' = <<[flow[1] EXCEPT !.trace = Traced(flow[1], "initial"), !.node = "raised"]>>
       ELSE flow' = <<[flow[1] EXCEPT
                         !.state = PlannerProcess(flow[1].state, answer),
                         !.trace = Traced(flow[1], IF IsReplanning(flow[1].state) THEN "replan"
                                                                                 ELSE "initial"),
                         !.node = "re_research"]>>
  /\ UNCHANGED <<sigVars, reqVars, threads, clock, tool, tasks, mcp>>

\* researcher.py lines 17-54: nodes research and re_research up to the
\* call of asyncio.gather; an exception leaves the graph
research_starts ==
  /\ AtNode({"research", "re_research"})
  /\ LET sub_questions == flow[1].state.planner_result.sub_questions
     IN  IF FormatRaises(sub_questions)
         THEN /\ flow' = <<[flow[1] EXCEPT !.trace = Traced(flow[1], ResearchMode(flow[1].state)),
                                           !.node = "raised"]>>
              /\ tasks' = tasks
         ELSE /\ flow' = <<[flow[1] EXCEPT !.at = "gather"]>>
              /\ tasks' = ResearchTasks(sub_questions)
  /\ UNCHANGED <<sigVars, reqVars, threads, clock, tool, mcp>>

\* researcher.py lines 81-178: one of the coroutines finishes
task_completes ==
  /\ flow # <<>>
  /\ flow[1].at = "gather"
  /\ \E i \in 1..Len(tasks) :
       /\ tasks[i].result = <<>>
       /\ \E answer \in {"raise", "text"} :
            tasks' = [tasks EXCEPT
                        ![i].result = <<SubQuestionResult(tasks[i].sub_q, answer)>>,
                        ![i].finished =
                           Cardinality({j \in 1..Len(tasks) : tasks[j].result # <<>>}) + 1]
  /\ UNCHANGED <<sigVars, reqVars, threads, clock, tool, flow, mcp>>

\* researcher.py lines 54-79 and workflow.py lines 97, 111: gather returns,
\* the data is analysed, and the edge leads to review
research_gathers ==
  /\ flow # <<>>
  /\ flow[1].at = "gather"
  /\ AllDone(tasks)
  /\ \E answer \in {"raise", "text"} :
       LET state == flow[1].state
           research_mode == ResearchMode(state)
           analysed == AnalyzeCryptoData(state, Gather(tasks), research_mode, answer)
       IN  flow' = <<[flow[1] EXCEPT
                        !.state = [analysed EXCEPT
                                     !.last_node = IF IsAdditional(state) THEN "re_research"
                                                                          ELSE "research"],
                        !.trace = Traced(flow[1], research_mode),
                        !.at = "node",
                        !.node = "review"]>>
  /\ tasks' = <<>>
  /\ UNCHANGED <<sigVars, reqVars, threads, clock, tool, mcp>>

\* workflow.py lines 78, 100-107: node review and its conditional edge
review ==
  /\ AtNode({"review"})
  /\ \E answer \in ReviewerAnswers :
       LET state == ReviewerProcess(flow[1].state, answer)
       IN  flow' = <<[flow[1] EXCEPT
                        !.state = state,
                        !.trace = Traced(flow[1], ""),
                        !.node = IF should_improve(state) = "improve" THEN "re_plan"
                                                                      ELSE "report"]>>
  /\ UNCHANGED <<sigVars, reqVars, threads, clock, tool, tasks, mcp>>

\* workflow.py line 79: node report, which has no edge out; an exception
\* raised while the prompt is built leaves the graph
report ==
  /\ AtNode({"report"})
  /\ \E answer \in {"raise", "text"} :
       IF PromptRaises(flow[1].state)
       THEN flow' = <<[flow[1] EXCEPT !.trace = Traced(flow[1], ""), !.node = "raised"]>>
       ELSE flow' = <<[flow[1] EXCEPT !.state = ReporterProcess(flow[1].state, answer),
                                      !.trace = Traced(flow[1], ""),
                                      !.node = "END"]>>
  /\ UNCHANGED <<sigVars, reqVars, threads, clock, tool, tasks, mcp>>

\* workflow.py lines 175-199: what execute returns after graph.ainvoke
SuccessResult(state) ==
  [status |-> "success",
   final_result |-> IF state.final_result = <<>> THEN "No result generated"
                    ELSE state.final_result[1],
   iterations |-> state.iteration]

\* workflow.py lines 201-208
ErrorResult == [status |-> "error", final_result |-> "", iterations |-> 0]

\* workflow.py lines 172-208: graph.ainvoke returns or raises
execute_returns ==
  /\ AtNode({"END", "raised"})
  /\ flow[1].result = <<>>
  /\ flow' = <<[flow[1] EXCEPT !.result = <<IF flow[1].node = "END"
                                             THEN SuccessResult(flow[1].state)
                                             ELSE ErrorResult>>]>>
  /\ UNCHANGED <<sigVars, reqVars, threads, clock, tool, tasks, mcp>>

FlowNext ==
  \/ execute_starts \/ listen \/ reply \/ plan \/ re_plan
  \/ research_starts \/ task_completes \/ research_gathers
  \/ review \/ report \/ execute_returns

FlowSpec == FlowSpecInit /\ [][FlowNext]_vars

MaxSubQuestions == 3

\* the plans Researcher.process is run on by itself: up to MaxSubQuestions
\* objects, and one plan with an element that is no object
ResearchPlans ==
  UNION {[1..n -> {SubQuestion("q1"), SubQuestion("q2")}] : n \in 0..MaxSubQuestions}
  \cup {<<BareString("q1")>>}

\* researcher.py line 17: Researcher.process is entered on a planned state,
\* before any review or after the first
ResearchInit ==
  /\ \E sub_questions \in ResearchPlans, iteration \in {0, 1} :
       flow = <<Run(IF iteration = 0 THEN "research" ELSE "re_research",
                    [InitialState EXCEPT
                       !.planner_result = [kind |-> "plan", sub_questions |-> sub_questions,
                                           error |-> FALSE, is_initial_plan |-> TRUE,
                                           is_adjusted_plan |-> FALSE],
                       !.iteration = iteration,
                       !.last_node = IF iteration = 0 THEN "plan" ELSE "re_plan"],
                    <<>>)>>
  /\ tasks = <<>>

ResearchSpecInit ==
  ResearchInit /\ SigIdle /\ ReqIdle /\ threads = <<>> /\ clock = 0 /\ tool = <<>> /\ mcp = <<>>

ResearchNext == research_starts \/ task_completes \/ research_gathers

ResearchSpec == ResearchSpecInit /\ [][ResearchNext]_vars

\* the event loop runs a coroutine that can run: a started execute goes on
\* until it has returned
FlowLiveSpec == FlowSpecInit /\ [][FlowNext]_vars /\ WF_vars(FlowNext)

-----------------------------------------------------------------------------
(* The MCP client (mcp_client.py)                                           *)

\* the most ClientSession objects one client makes
MaxSessions == 3

\* no request was posted
NoPost == [raises |-> FALSE, status |-> 0, body |-> "none"]

\* lines 10-13: a client right after __init__; `created` counts the
\* ClientSession objects made for it, `last` is what the last call did
NewMCPClient ==
  [session |-> <<>>, connected |-> FALSE, created |-> 0,
   last |-> [op |-> "__init__", outcome |-> "returned", value |-> "None",
             response |-> NoPost]]

\* what the parsed body of an answer can be (lines 33-49): None when there is
\* no text, no data line or no valid JSON; else the JSON value
Bodies ==
  {"None", "empty_dict", "list", "dict_without_result", "result_with_tools",
   "result_without_tools", "result_number", "result_null"}

\* what session.post does: it raises, or the server answers
PostOutcomes ==
  {[raises |-> TRUE, status |-> 0, body |-> "none"]}
    \cup {[raises |-> FALSE, status |-> s, body |-> b] : s \in {200, 500}, b \in Bodies}

\* Python truthiness of a parsed body (lines 68, 106)
Truthy(body) == body \notin {"None", "empty_dict"}

\* lines 15-24 without the test of line 16
ConnectAlways(client, made) ==
  IF made
    THEN [client |-> [client EXCEPT !.session = <<[id |-> client.created + 1, closed |-> FALSE]>>,
                                    !.connected = TRUE,
                                    !.created = client.created + 1],
          value |-> "True"]
    ELSE [client |-> client, value |-> "False"]

\* lines 15-24: `made` says whether the ClientSession could be constructed
Connect(client, made) ==
  IF client.connected
    THEN [client |-> client, value |-> "True"]
    ELSE IF made
      THEN [client |-> [client EXCEPT !.session = <<[id |-> client.created + 1, closed |-> FALSE]>>,
                                      !.connected = TRUE,
                                      !.created = client.created + 1],
            value |-> "True"]
      ELSE [client |-> client, value |-> "False"]

\* lines 61-65, 99-103: posting through the session raises when the session
\* is None (AttributeError) or closed (RuntimeError), or when the transport
\* does
PostRaises(client, response) ==
  \/ client.session = <<>>
  \/ client.session[1].closed
  \/ response.raises

\* lines 55-79: the body of the try of list_tools
ListToolsTry(client, response) ==
  IF PostRaises(client, response) THEN [outcome |-> "raised", value |-> "Exception"]
  ELSE IF response.status # 200 THEN [outcome |-> "returned", value |-> "[]"]
  ELSE IF ~Truthy(response.body) THEN [outcome |-> "returned", value |-> "[]"]
  ELSE IF response.body \in {"list", "dict_without_result"}
    THEN [outcome |-> "returned", value |-> "[]"]
  ELSE IF response.body \in {"result_number", "result_null"}
    THEN [outcome |-> "raised", value |-> "TypeError"]
  ELSE IF response.body = "result_with_tools"
    THEN [outcome |-> "returned", value |-> "tools"]
  ELSE [outcome |-> "returned", value |-> "[]"]

\* lines 54-82: the try and its except
ListTools(client, response) ==
  LET tried == ListToolsTry(client, response)
  IN  IF tried.outcome = "raised" THEN [outcome |-> "returned", value |-> "[]"] ELSE tried

\* lines 90-111: the body of the try of call_tool
CallToolTry(client, response) ==
  IF PostRaises(client, response) THEN [outcome |-> "raised", value |-> "Exception"]
  ELSE IF response.status # 200 THEN [outcome |-> "returned", value |-> "None"]
  ELSE IF ~Truthy(response.body) THEN [outcome |-> "returned", value |-> "None"]
  ELSE IF response.body = "list"
    THEN [outcome |-> "raised", value |-> "AttributeError"]
  ELSE IF response.body = "dict_without_result"
    THEN [outcome |-> "returned", value |-> "body"]
  ELSE IF response.body = "result_null"
    THEN [outcome |-> "returned", value |-> "None"]
  ELSE [outcome |-> "returned", value |-> "result"]

\* lines 89-113: the try and its except
CallTool(client, response) ==
  LET tried == CallToolTry(client, response)
  IN  IF tried.outcome = "raised" THEN [outcome |-> "returned", value |-> "None"] ELSE tried

McpInit == mcp = <<NewMCPClient>>

McpSpecInit ==
  McpInit /\ SigIdle /\ ReqIdle /\ threads = <<>> /\ clock = 0 /\ tool = <<>>
          /\ flow = <<>> /\ tasks = <<>>

\* a ClientSession can be made for the client
CanMake(client, made) == made => (client.connected \/ client.created < MaxSessions)

\* lines 15-24
connect ==
  /\ mcp # <<>>
  /\ \E made \in BOOLEAN :
       /\ CanMake(mcp[1], made)
       /\ LET c == Connect(mcp[1], made)
          IN  mcp' = <<[c.client EXCEPT !.last = [op |-> "connect", outcome |-> "returned",
                                                  value |-> c.value, response |-> NoPost]]>>
  /\ UNCHANGED <<sigVars, reqVars, threads, clock, tool, flow, tasks>>

\* lines 51-82
list_tools ==
  /\ mcp # <<>>
  /\ \E made \in BOOLEAN, response \in PostOutcomes :
       /\ CanMake(mcp[1], made)
       /\ LET client == IF ~mcp[1].connected THEN Connect(mcp[1], made).client ELSE mcp[1]
              posted == IF client.session = <<>> \/ client.session[1].closed
                          THEN NoPost ELSE response
              r == ListTools(client, response)
          IN  mcp' = <<[client EXCEPT !.last = [op |-> "list_tools", outcome |-> r.outcome,
                                                value |-> r.value, response |-> posted]]>>
  /\ UNCHANGED <<sigVars, reqVars, threads, clock, tool, flow, tasks>>

\* lines 84-113
call_tool ==
  /\ mcp # <<>>
  /\ \E made \in BOOLEAN, response \in PostOutcomes :
       /\ CanMake(mcp[1], made)
       /\ LET client == IF ~mcp[1].connected THEN Connect(mcp[1], made).client ELSE mcp[1]
              posted == IF client.session = <<>> \/ client.session[1].closed
                          THEN NoPost ELSE response
              r == CallTool(client, response)
          IN  mcp' = <<[client EXCEPT !.last = [op |-> "call_tool", outcome |-> r.outcome,
                                                value |-> r.value, response |-> posted]]>>
  /\ UNCHANGED <<sigVars, reqVars, threads, clock, tool, flow, tasks>>

\* lines 124-128: session.close() returns, or it raises and the two
\* assignments after it are not reached (the session is then closed or not)
disconnect ==
  /\ mcp # <<>>
  /\ \/ /\ mcp[1].session = <<>>
        /\ mcp' = <<[mcp[1] EXCEPT !.connected = FALSE,
                                   !.last = [op |-> "disconnect", outcome |-> "returned",
                                             value |-> "None", response |-> NoPost]]>>
     \/ /\ mcp[1].session # <<>>
        /\ mcp' = <<[mcp[1] EXCEPT !.session = <<>>,
                                   !.connected = FALSE,
                                   !.last = [op |-> "disconnect", outcome |-> "returned",
                                             value |-> "None", response |-> NoPost]]>>
     \/ /\ mcp[1].session # <<>>
        /\ \E closed \in BOOLEAN :
             /\ mcp[1].session[1].closed => closed
             /\ mcp' = <<[mcp[1] EXCEPT !.session[1].closed = closed,
                                        !.last = [op |-> "disconnect", outcome |-> "raised",
                                                  value |-> "Exception", response |-> NoPost]]>>
  /\ UNCHANGED <<sigVars, reqVars, threads, clock, tool, flow, tasks>>

McpNext == connect \/ disconnect \/ list_tools \/ call_tool

McpSpec == McpSpecInit /\ [][McpNext]_vars

----------------------------------------------------------------------------
(* What the claims speak of                                                 *)

\* the value the client handed back (the tools wrap it in JSON text)
Result == IF IsTool(call[1].entry) THEN outcome[1].value.json ELSE outcome[1].value

Returned == Done /\ outcome[1].kind = "returned"

IsHttp(a, status) == a.resp.exc = "" /\ a.resp.status = status

\* HTTP 200 with a JSON body
IsSuccess(a) == IsHttp(a, 200) /\ a.resp.body.t # "text"

IsServerError(a) == a.resp.exc = "" /\ a.resp.status >= 500

IsRateLimited(a) == IsHttp(a, 429)

IsTransportError(a) == a.resp.exc # ""

\* HTTP 400 with an exchange code of the clock-skew set
IsDrift(a) ==
  /\ IsHttp(a, 400)
  /\ a.resp.body.t = "dict"
  /\ Get(a.resp.body.d, "code", <<>>) \in
       {<<"4", "0", "0", "0", "4">>, <<"4", "0", "0", "0", "5">>, <<"4", "0", "0", "0", "8">>}

IsFailed(v) == v.t = "dict" /\ Get(v.d, "status", "") = "FAILED"

IsMaxRetriesExceeded(v) == IsFailed(v) /\ Get(v.d, "error", "") = "Max retries exceeded"

IsOrderCall == call[1].entry \in {"post_order", "place_bitget_order"}

AllServerErrors == \A i \in 1..Len(attempts) : IsServerError(attempts[i])

AllOfOneRetryableKind ==
  \/ \A i \in 1..Len(attempts) : IsDrift(attempts[i])
  \/ \A i \in 1..Len(attempts) : IsRateLimited(attempts[i])
  \/ AllServerErrors
  \/ \A i \in 1..Len(attempts) : IsTransportError(attempts[i])

----------------------------------------------------------------------------
(* C1: when every response to a call with max_retries = 3 (in general n)   *)
(* is a status >= 500, the call makes exactly 4 (n + 1) attempts and ends  *)
(* with the MaxRetriesExceeded failure.                                    *)
RetryBoundServerError ==
  (Done /\ call[1].max_retries = 3 /\ attempts # <<>> /\ AllServerErrors)
    => /\ Len(attempts) = 4
       /\ Returned /\ IsMaxRetriesExceeded(Result)

(* C2: one post_order call transmits the order at most once: it is not    *)
(* sent again after an attempt that ended in a transport exception, HTTP   *)
(* 429 or HTTP >= 500.                                                     *)
OrderNeverRetried ==
  IsOrderCall =>
    \A i \in 1..Len(attempts) :
      (IsTransportError(attempts[i]) \/ IsRateLimited(attempts[i]) \/ IsServerError(attempts[i]))
        => i = Len(attempts)

(* C3: every attempt carries a signature computed for that attempt: the   *)
(* ACCESS-SIGN of an earlier attempt is never sent again.                  *)
OneSignaturePerAttempt ==
  \A i, j \in 1..Len(attempts) :
    i < j => attempts[j].req.headers["ACCESS-SIGN"] # attempts[i].req.headers["ACCESS-SIGN"]

TerminalFastFail ==
  \A i \in 1..Len(attempts) :
    (IsHttp(attempts[i], 401) \/ IsHttp(attempts[i], 403))
      => /\ i = Len(attempts)
         /\ attempts[i].slept = <<>> /\ ~attempts[i].synced
         /\ Returned /\ IsFailed(Result)
         /\ Get(Result.d, "status_code", 0) = attempts[i].resp.status
         /\ Get(Result.d, "error", "") =
              (IF attempts[i].resp.status = 401 THEN "Authentication error" ELSE "Access denied")

\* a 403 on the first attempt ended the call after that one attempt
TerminalFastFailWitness ==
  /\ Returned /\ Len(attempts) = 1 /\ IsHttp(attempts[1], 403)
  /\ Get(Result.d, "error", "") = "Access denied"

(* C6: for each retryable kind (drift-coded 400, 429, >= 500, transport    *)
(* exception), a call all of whose attempts end in that kind and that has  *)
(* used all its attempts ends with the MaxRetriesExceeded failure.         *)
MaxRetriesExceededEveryKind ==
  ( /\ Done /\ call[1].max_retries = DefaultMaxRetries
    /\ Len(attempts) = call[1].max_retries + 1
    /\ AllOfOneRetryableKind )
    => Returned /\ IsMaxRetriesExceeded(Result)

(* C7: whatever the attempts come back with, one call of request makes at  *)
(* most max_retries + 1 attempts of its own request.                       *)
AttemptBound == Len(attempts) <= call[1].max_retries + 1

\* four attempts of one call, each ending differently
AttemptBoundWitness ==
  /\ Len(attempts) = 4 /\ call[1].max_retries = 3
  /\ IsTransportError(attempts[1]) /\ IsDrift(attempts[2])
  /\ IsRateLimited(attempts[3]) /\ IsServerError(attempts[4])

\* post_order or place_bitget_order asked for a limit order without a price
LimitWithoutPrice ==
  IsOrderCall /\ Lower(call[1].type) = "limit" /\ Falsy(call[1].price)

\* delete_order or cancel_bitget_order was given neither identifier
CancelWithoutIds ==
  /\ call[1].entry \in {"delete_order", "cancel_bitget_order"}
  /\ Falsy(call[1].order_id) /\ Falsy(call[1].client_oid)

(* C8: a limit order without a price and a cancellation without order_id   *)
(* and client_oid are rejected before any signature is computed and any    *)
(* HTTP attempt is made: the client methods raise, the tools return an     *)
(* error object.                                                           *)
ValidationShortCircuit ==
  (LimitWithoutPrice \/ CancelWithoutIds)
    => /\ stack = <<>> /\ attempts = <<>>
       /\ Done => IF IsTool(call[1].entry)
                  THEN Returned /\ "error" \in DOMAIN Result.d
                  ELSE outcome[1] = [kind |-> "raised", exc |-> "ValueError"]

\* post_order raised on a limit order without a price, and the
\* cancel_bitget_order tool returned its error object
ValidationShortCircuitWitness ==
  /\ Done /\ attempts = <<>>
  /\ \/ LimitWithoutPrice /\ call[1].entry = "post_order" /\ outcome[1].kind = "raised"
     \/ CancelWithoutIds /\ call[1].entry = "cancel_bitget_order" /\ outcome[1].kind = "returned"

\* the call is at a point from which one of its steps can be taken: an
\* entry point about to run, a request about to test its loop condition or
\* waiting for an attempt to come back, or a get_server_time about to return
\* into the request that called it
CanStep ==
  \/ pc = "tool" /\ IsTool(call[1].entry)
  \/ pc = "method"
  \/ pc = "loop" /\ stack # <<>>
  \/ pc = "wait" /\ stack # <<>> /\ wire # <<>> /\ Responses(Len(stack)) # {}
  \/ pc = "returned" /\ stack # <<>> /\ ret # <<>>

(* C9: a call that reached request ends by returning a value, never by an  *)
(* exception: either the body parsed from an HTTP 200 response or a        *)
(* failure object with status FAILED, and never both; until it has ended   *)
(* the call is never stuck.                                                *)
FailuresAreValues ==
  /\ (Done /\ attempts # <<>>)
       => /\ outcome[1].kind = "returned"
          /\ IsFailed(Result) # ( /\ IsSuccess(attempts[Len(attempts)])
                                  /\ Result = attempts[Len(attempts)].resp.body )
  /\ Done \/ CanStep

\* a transport exception on the last attempt came back as a failure object
FailuresAreValuesWitness ==
  /\ Returned /\ Len(attempts) = 4
  /\ IsHttp(attempts[3], 400) /\ attempts[3].resp.body.t = "list"
  /\ IsTransportError(attempts[4])
  /\ IsFailed(Result)

(* C10: get_signature returns the same signature for every caller-supplied *)
(* ordering of one set of key=value pairs with unique keys.                 *)
CanonicalOrdering ==
  (sig_out1 # <<>> /\ sig_out2 # <<>>) => sig_out1 = sig_out2

\* two different orderings of three parameters were both signed, and the
\* signed message holds them in ascending key order
CanonicalOrderingWitness ==
  /\ sig_out1 # <<>> /\ sig_out2 # <<>>
  /\ sig_in[1].q1 # sig_in[1].q2
  /\ sig_out1[1].msg = IntToStr(sig_in[1].timestamp) \o <<"GET">> \o sig_in[1].path \o <<"?">>
                      \o <<"a", "=", "1", "&", "a", "b", "=", "2", "&", "b", "=", "1">>

(* C12: the delay slept before retry number n after an HTTP 429, an HTTP   *)
(* >= 500 or a transport exception is 1, 2, 4, 8, 16 for n = 0..4 and 30   *)
(* from n = 5 on: it never decreases from one retry to the next and never  *)
(* exceeds 30.                                                             *)
BackoffGrowth ==
  \A i \in 1..Len(attempts) :
    ( /\ attempts[i].slept # <<>>
      /\ IsRateLimited(attempts[i]) \/ IsServerError(attempts[i]) \/ IsTransportError(attempts[i]) )
      => /\ attempts[i].slept[1] = (IF i - 1 <= 4 THEN 2 ^ (i - 1) ELSE 30)
         /\ attempts[i].slept[1] <= 30
         /\ (i > 1 /\ attempts[i - 1].slept # <<>>)
              => attempts[i - 1].slept[1] <= attempts[i].slept[1]

\* seven attempts were each followed by a sleep: 1, 2, 4, 8 seconds before
\* retries 0..3 and 30 seconds before retry 6
BackoffGrowthWitness ==
  /\ Len(attempts) >= 7
  /\ IsRateLimited(attempts[1]) /\ IsServerError(attempts[2]) /\ IsTransportError(attempts[3])
  /\ [i \in 1..4 |-> attempts[i].slept] = << <<1>>, <<2>>, <<4>>, <<8>> >>
  /\ attempts[7].slept = <<30>>

\* HTTP 400 whose exchange code starts with 4001 or 4002
IsInvalidParameter(a) ==
  /\ IsHttp(a, 400)
  /\ a.resp.body.t = "dict"
  /\ LET code == Get(a.resp.body.d, "code", <<>>)
     IN  Len(code) >= 4 /\ SubSeq(code, 1, 3) = <<"4", "0", "0">> /\ code[4] \in {"1", "2"}

(* C13: an HTTP 400 whose exchange code starts with 4001 or 4002 ends the  *)
(* call at that attempt, whatever its number, with no sleep and no clock   *)
(* request: the call returns a failure carrying status_code 400, the       *)
(* exchange's code as error_code and its message as error_msg.             *)
InvalidParameterTerminal ==
  \A i \in 1..Len(attempts) :
    IsInvalidParameter(attempts[i])
      => /\ i = Len(attempts)
         /\ attempts[i].slept = <<>> /\ ~attempts[i].synced
         /\ Returned /\ IsFailed(Result)
         /\ Get(Result.d, "status_code", 0) = 400
         /\ Get(Result.d, "error_code", <<>>) = attempts[i].resp.body.d["code"]
         /\ Get(Result.d, "error_msg", "") = attempts[i].resp.body.d["msg"]

\* after two retried attempts the third got code 40020 and ended the call
InvalidParameterTerminalWitness ==
  /\ Returned /\ Len(attempts) = 3
  /\ IsRateLimited(attempts[1]) /\ IsDrift(attempts[2])
  /\ IsInvalidParameter(attempts[3])
  /\ Get(Result.d, "error_code", <<>>) = <<"4", "0", "0", "2", "0">>

\* a response with a status other than 200 that is none of: drift-coded
\* 400, parameter-coded 400, 401, 403, 429, >= 500
IsUnclassified(a) ==
  /\ a.resp.exc = "" /\ a.resp.status # 200
  /\ ~IsDrift(a) /\ ~IsInvalidParameter(a)
  /\ a.resp.status \notin {401, 403, 429} /\ a.resp.status < 500

(* C14: a response that is not 200 and falls in none of the classes        *)
(* drift-coded 400, parameter-coded 400, 401, 403, 429, >= 500 ends the    *)
(* call at that attempt with a failure, with no retry and no sleep.        *)
UnclassifiedTerminal ==
  \A i \in 1..Len(attempts) :
    IsUnclassified(attempts[i])
      => /\ i = Len(attempts)
         /\ attempts[i].slept = <<>> /\ ~attempts[i].synced
         /\ Returned /\ IsFailed(Result)

\* the ACCESS-SIGN header of a request is the keyed digest of the canonical
\* message that starts with the text of its ACCESS-TIMESTAMP header
SignMatchesTimestamp(req) ==
  req.headers["ACCESS-SIGN"] =
    [key |-> self[1].secret,
     msg |-> req.headers["ACCESS-TIMESTAMP"] \o <<Upper(req.method)>> \o req.url.path
             \o (IF req.url.query # <<>> THEN <<"?">> \o req.url.query ELSE <<>>)
             \o (IF Lower(req.method) # "get" /\ req.body # <<>> THEN JsonDumps(req.body) ELSE <<>>)]

(* C15: every attempt that was sent, and every request in progress (the    *)
(* call's own and the clock requests nested in it), carries an ACCESS-SIGN *)
(* that is the signature of the canonical message built with the timestamp *)
(* of its own ACCESS-TIMESTAMP header, also after get_server_time ran.     *)
SignatureTimestampMatch ==
  /\ \A i \in 1..Len(attempts) : SignMatchesTimestamp(attempts[i].req)
  /\ \A k \in 1..Len(stack) : SignMatchesTimestamp(stack[k])

\* an order was sent a second time after a clock request: the request's
\* timestamp variable moved on, the second attempt's header did not
SignatureTimestampMatchWitness ==
  /\ IsOrderCall /\ Len(attempts) = 2 /\ stack # <<>>
  /\ attempts[1].synced
  /\ IntToStr(stack[1].timestamp) # attempts[2].req.headers["ACCESS-TIMESTAMP"]
  /\ attempts[2].req.headers["ACCESS-TIMESTAMP"] = <<"1", "0", "0", "0">>

(* C16: at every instant of a call at most one HTTP round trip is pending, *)
(* and it belongs to the innermost request in progress; attempt N + 1 of   *)
(* the call's own request is on the wire only when the outcomes of its     *)
(* attempts 1..N are known, one network call per attempt; a clock request  *)
(* is on the wire only after the outcome of the attempt that caused it.    *)
StrictlySequential ==
  /\ Len(wire) <= 1
  /\ (pc = "wait") = (wire # <<>>)
  /\ wire # <<>> =>
       /\ wire[1].depth = Len(stack)
       /\ wire[1].attempt = stack[Len(stack)].retries + 1
       /\ IF wire[1].depth = 1
          THEN wire[1].attempt = Len(attempts) + 1
          ELSE /\ wire[1].endpoint = "api/v2/public/time"
               /\ attempts # <<>> /\ attempts[Len(attempts)].synced

\* the second attempt of an order is pending after the first was retried,
\* or a clock request is pending after the second attempt was rejected
StrictlySequentialWitness ==
  /\ wire # <<>> /\ Len(attempts) = IF IsOrderCall THEN 1 ELSE 2
  /\ IF IsOrderCall
     THEN wire[1].depth = 1 /\ wire[1].attempt = 2 /\ IsTransportError(attempts[1])
     ELSE wire[1].depth = 2 /\ wire[1].attempt = 3 /\ IsDrift(attempts[2])

\* the canonical message of caller t's request at timestamp ts
OwnMessage(t, ts) ==
  IF t = 1
  THEN IntToStr(ts) \o <<"GET", "/", "api/v2/mix/position/all-position", "?",
                         "productType", "=", "USDT", "-", "FUTURES">>
  ELSE IntToStr(ts) \o <<"POST", "/", "api/v2/mix/order/cancel-order", "{",
                         "\"", "symbol", "\"", ": ", "\"", "btcusdt", "\"", ", ",
                         "\"", "orderId", "\"", ": ", "\"", "oid", "\"", "}">>

(* C17: in every interleaving of two calls of request on one client the    *)
(* client's api_key, secret, passphrase, base_url and headers stay as the  *)
(* constructor set them, every attempt of a call is sent with the client's *)
(* default headers plus that call's own timestamp and the signature of its *)
(* own request, and no call sends the signature of the other.              *)
NoSharedMutableState ==
  /\ self = <<[api_key |-> "key", secret |-> "secret", passphrase |-> "phrase",
               base_url |-> "https://api.bitget.com",
               headers |-> [h \in {"ACCESS-KEY", "ACCESS-PASSPHRASE", "Content-Type", "locale"} |->
                              CASE h = "ACCESS-KEY" -> "key"
                                [] h = "ACCESS-PASSPHRASE" -> "phrase"
                                [] h = "Content-Type" -> "application/json"
                                [] h = "locale" -> "en-US"]]>>
  /\ \A t \in DOMAIN threads : \A i \in 1..Len(threads[t].sent) :
       LET h == threads[t].sent[i]
       IN  /\ DOMAIN h = DOMAIN self[1].headers \cup {"ACCESS-TIMESTAMP", "ACCESS-SIGN"}
           /\ \A k \in DOMAIN self[1].headers : h[k] = self[1].headers[k]
           /\ h["ACCESS-TIMESTAMP"] = IntToStr(threads[t].timestamp[1])
           /\ h["ACCESS-SIGN"] = [key |-> "secret", msg |-> OwnMessage(t, threads[t].timestamp[1])]
           /\ \A u \in DOMAIN threads \ {t} :
                h["ACCESS-SIGN"].msg \notin {OwnMessage(u, ts) : ts \in 1000..clock}

\* both callers read the clock in the same millisecond; one has sent an
\* attempt and will retry it, the other is about to sign
NoSharedMutableStateWitness ==
  /\ threads # <<>>
  /\ threads[1].pc = "sign" /\ threads[2].pc = "loop" /\ Len(threads[2].sent) = 1
  /\ threads[1].timestamp = threads[2].timestamp

TimeEndpoint == "api/v2/public/time"

(* C18: a call invokes get_server_time, and so sends a request to the time *)
(* endpoint, only directly after one of its own attempts was answered with *)
(* a drift-coded HTTP 400; a call none of whose attempts got a drift code  *)
(* never has a clock request in progress or on the wire.                   *)
ClockSyncReactiveOnly ==
  /\ \A i \in 1..Len(attempts) : attempts[i].synced => IsDrift(attempts[i])
  /\ \A k \in 1..Len(stack) : (stack[k].endpoint = TimeEndpoint) = (k > 1)
  /\ Len(stack) > 1 => attempts # <<>> /\ attempts[Len(attempts)].synced
  /\ (wire # <<>> /\ wire[1].endpoint = TimeEndpoint)
       => wire[1].depth > 1 /\ IsDrift(attempts[Len(attempts)])
  /\ (\A i \in 1..Len(attempts) : ~IsDrift(attempts[i]))
       => Len(stack) <= 1 /\ \A j \in 1..Len(wire) : wire[j].endpoint # TimeEndpoint

\* the third attempt was rejected for its timestamp after two attempts that
\* were not, and the clock request that followed is on the wire
ClockSyncReactiveOnlyWitness ==
  /\ Len(attempts) = 3 /\ Len(stack) = 2
  /\ IsServerError(attempts[1]) /\ ~attempts[1].synced
  /\ IsDrift(attempts[3]) /\ attempts[3].synced
  /\ wire # <<>> /\ wire[1].endpoint = TimeEndpoint

\* Requests to the time endpoint that were answered since the call's
\* get_server_time in progress began, as far as the frames show: frame k
\* counts one per attempt it retried, and every frame under a nested one
\* got the answer that made it call get_server_time
RECURSIVE ClockCallsAnswered(_)
ClockCallsAnswered(k) ==
  IF k > Len(stack) THEN 0
  ELSE stack[k].retries + (IF k < Len(stack) THEN 1 ELSE 0) + ClockCallsAnswered(k + 1)

(* C19: whatever the time endpoint answers, a drift-coded 400 included,    *)
(* get_server_time comes back after a bounded number of network calls: the *)
(* attempts of its one request, max_retries + 1 = 4 at most.               *)
ClockSyncBounded == ClockCallsAnswered(2) + Len(wire) <= DefaultMaxRetries + 1

(* C20: every failure a client method returns from request, of whatever    *)
(* kind (transport errors and exhausted retries included), is an object    *)
(* with status FAILED and a status_code field.                             *)
FailureObjectShape ==
  (Returned /\ attempts # <<>> /\ ~IsSuccess(attempts[Len(attempts)]))
    => /\ IsFailed(Result)
       /\ "status_code" \in DOMAIN Result.d

\* a header mapping with the six headers the exchange requires
HasRequiredHeaders(h) ==
  /\ {"ACCESS-KEY", "ACCESS-SIGN", "ACCESS-PASSPHRASE", "ACCESS-TIMESTAMP", "Content-Type", "locale"}
       \subseteq DOMAIN h
  /\ h["ACCESS-KEY"] = "key" /\ h["ACCESS-PASSPHRASE"] = "phrase"
  /\ h["Content-Type"] = "application/json" /\ h["locale"] = "en-US"
  /\ h["ACCESS-SIGN"].key = "secret" /\ h["ACCESS-TIMESTAMP"] # <<>>

(* C21: every attempt request sends, the first and every retry, carries    *)
(* ACCESS-KEY, ACCESS-SIGN, ACCESS-PASSPHRASE, ACCESS-TIMESTAMP,           *)
(* Content-Type: application/json and locale: en-US.                       *)
RequiredHeaders ==
  /\ \A i \in 1..Len(attempts) : HasRequiredHeaders(attempts[i].req.headers)
  /\ wire # <<>> => HasRequiredHeaders(stack[wire[1].depth].headers)

\* the fourth attempt of a call, a retry after a rate limit, a server error
\* and a timeout, is on the wire
RequiredHeadersWitness ==
  /\ Len(attempts) = 3 /\ wire # <<>> /\ wire[1].depth = 1 /\ wire[1].attempt = 4
  /\ IsRateLimited(attempts[1]) /\ IsServerError(attempts[2]) /\ IsTransportError(attempts[3])
  /\ DOMAIN stack[1].headers = DOMAIN attempts[1].req.headers

(* C22: an attempt answered with HTTP 200 ends the call at that attempt:   *)
(* the call returns the response body, whatever it holds, and no sleep and *)
(* no further attempt follow.                                              *)
Http200EndsCall ==
  \A i \in 1..Len(attempts) :
    IsHttp(attempts[i], 200)
      => /\ i = Len(attempts)
         /\ attempts[i].slept = <<>>
         /\ Returned /\ Result = attempts[i].resp.body

(* C23: after a drift-coded 400 with retries left the call sleeps exactly  *)
(* 1 second, calls get_server_time, and sends the retry with the time that *)
(* get_server_time returned in ACCESS-TIMESTAMP and in the signed message. *)
DriftRetryPolicy ==
  /\ \A i \in 1..Len(attempts) : attempts[i].synced => attempts[i].slept = <<1>>
  /\ ( /\ wire # <<>> /\ wire[1].depth = 1
       /\ attempts # <<>> /\ attempts[Len(attempts)].synced )
       => /\ stack[1].headers["ACCESS-TIMESTAMP"] = IntToStr(stack[1].timestamp)
          /\ StartsWith(stack[1].headers["ACCESS-SIGN"].msg, IntToStr(stack[1].timestamp))

(* C24: a sleep is only ever followed by another attempt: a call that has  *)
(* ended did not sleep after its last attempt, of whatever kind that       *)
(* attempt was (HTTP 429 included).                                        *)
NoBackoffAfterLastAttempt ==
  (Done /\ attempts # <<>>) => attempts[Len(attempts)].slept = <<>>

\* the text after "?" in the message that was signed for request req
SignedQuery(req) ==
  LET msg == req.headers["ACCESS-SIGN"].msg
      q == Len(req.headers["ACCESS-TIMESTAMP"]) + 4
  IN  IF Len(msg) >= q /\ msg[q] = "?" THEN SubSeq(msg, q + 1, Len(msg)) ELSE <<>>

(* C25: for every GET request with parameters, in whatever order they were *)
(* inserted, the query string in the URL that is sent is the same text as  *)
(* the query string after "?" in the signed message.                       *)
SignedQueryEqualsSentQuery ==
  \A i \in 1..Len(attempts) :
    attempts[i].req.url.query # <<>> => SignedQuery(attempts[i].req) = attempts[i].req.url.query

\* what follows timestamp, method and path in the message signed for req
SignedRest(req) ==
  LET msg == req.headers["ACCESS-SIGN"].msg
      q == Len(req.headers["ACCESS-TIMESTAMP"]) + 4
  IN  SubSeq(msg, q, Len(msg))

Symbols(s) == {s[n] : n \in 1..Len(s)}

(* C26: the message signed for a GET holds the query (its pieces in sorted *)
(* order, after "?") and no body, also when a body was passed; the message *)
(* signed for a POST or DELETE holds the serialized body and no query      *)
(* part, also when params were passed; a request with only one of the two, *)
(* or neither, is signed as well.                                          *)
QueryBodyExclusive ==
  \A i \in 1..Len(attempts) :
    LET req == attempts[i].req
        rest == SignedRest(req)
    IN  IF req.method = "get"
        THEN /\ "{" \notin Symbols(rest)
             /\ IF call[1].params = <<>> THEN rest = <<>>
                ELSE /\ Head(rest) = "?"
                     /\ Symbols(Split(Tail(rest), "&")) = Symbols(Split(req.url.query, "&"))
        ELSE /\ "?" \notin Symbols(rest)
             /\ rest = IF call[1].body = <<>> THEN <<>>
                       ELSE <<"{", "\"", "symbol", "\"", ": ", "\"", "btcusdt", "\"", "}">>

\* a GET that was given params and a body was signed and sent: its signed
\* message ends with the query
QueryBodyExclusiveWitness ==
  /\ attempts # <<>> /\ attempts[1].req.method = "get"
  /\ call[1].body # <<>> /\ Len(call[1].params) = 2
  /\ SignedRest(attempts[1].req) = <<"?", "a", "=", "1", "&", "b", "=", "1">>

(* C27: a transport exception on attempt number n (counted from 0) of a    *)
(* call with n < max_retries is followed by a sleep of min(30, 2^n)        *)
(* seconds and then by attempt n + 1; on attempt number max_retries it     *)
(* ends the call with a failure value, with no sleep and no more attempts. *)
TransportErrorsRetried ==
  \A i \in 1..Len(attempts) :
    IsTransportError(attempts[i])
      => IF i - 1 < call[1].max_retries
         THEN /\ attempts[i].slept = <<IF 2 ^ (i - 1) < 30 THEN 2 ^ (i - 1) ELSE 30>>
              /\ ~attempts[i].synced
              /\ i = Len(attempts) => (~Done /\ stack[1].retries = i /\ LoopGuard(stack[1]))
         ELSE /\ i = Len(attempts) /\ i - 1 = call[1].max_retries
              /\ attempts[i].slept = <<>>
              /\ Returned /\ IsFailed(Result)

\* four timeouts in a row: sleeps of 1, 2 and 4 seconds, then the failure
TransportErrorsRetriedWitness ==
  /\ Returned /\ Len(attempts) = 4
  /\ \A i \in 1..4 : IsTransportError(attempts[i])
  /\ [i \in 1..3 |-> attempts[i].slept] = << <<1>>, <<2>>, <<4>> >>
  /\ IsFailed(Result) /\ ~IsMaxRetriesExceeded(Result)

(* C28: the request get_server_time sends to the time endpoint carries no  *)
(* ACCESS-KEY, ACCESS-SIGN or ACCESS-PASSPHRASE header: it is sent without *)
(* credentials and without a signature being computed for it.              *)
ClockSyncUnauthenticated ==
  (wire # <<>> /\ wire[1].endpoint = TimeEndpoint)
    => DOMAIN stack[wire[1].depth].headers
         \cap {"ACCESS-KEY", "ACCESS-SIGN", "ACCESS-PASSPHRASE"} = {}

\* the positions a close-all must close: total > 0 on one of the two sides
OpenPositions(data) ==
  SelectSeq(data, LAMBDA pos : /\ "total" \in DOMAIN pos
                               /\ pos["total"] # "0"
                               /\ pos["holdSide"] \in {"long", "short"})

\* the order that closes pos: opposite side, at market, reduce-only, full size
ClosesPosition(order, pos) ==
  /\ order.symbol = pos["symbol"]
  /\ order.side = (IF pos["holdSide"] = "long" THEN "SELL" ELSE "BUY")
  /\ order.type = "MARKET"
  /\ order.reduce_only = TRUE
  /\ order.quantity = pos["total"]

ResponseCodeOk(close_order) ==
  close_order.t = "dict" /\ "code" \in DOMAIN close_order.d /\ close_order.d["code"] = OkCode

\* C29: close_all_bitget_positions_correct calls post_order once for each
\* position of the fetched list that has total > 0 and holdSide long or
\* short, in the list's order, selling a long and buying a short at market,
\* reduce-only, for the position's full size, and for no other position;
\* an entry of close_orders is a success only if its response code is 00000,
\* and the report counts exactly those.
CloseAllOrders ==
  \A i \in 1..Len(tool) :
    (tool[i].name = "close_all_bitget_positions_correct" /\ tool[i].positions # <<>>
     /\ tool[i].positions[1].t = "dict" /\ "data" \in DOMAIN tool[i].positions[1].d
     /\ tool[i].positions[1].d["code"] = OkCode) =>
      LET open == OpenPositions(tool[i].positions[1].d["data"])
          placed == tool[i].placed
          close_orders == tool[i].close_orders
      IN  /\ Len(placed) <= Len(open)
          /\ \A k \in 1..Len(placed) : ClosesPosition(placed[k], open[k])
          /\ Len(close_orders) = Len(placed)
          /\ \A k \in 1..Len(close_orders) :
               ("success" \in DOMAIN close_orders[k] /\ close_orders[k]["success"])
                 <=> ("close_order" \in DOMAIN close_orders[k]
                      /\ ResponseCodeOk(close_orders[k]["close_order"]))
          /\ tool[i].pc = "done" =>
               /\ Len(placed) = Len(open)
               /\ open # <<>> =>
                    /\ tool[i].result[1]["successful_orders"]
                         = Cardinality({k \in 1..Len(close_orders) :
                                          /\ "close_order" \in DOMAIN close_orders[k]
                                          /\ ResponseCodeOk(close_orders[k]["close_order"])})
                    /\ tool[i].result[1]["successful_orders"] + tool[i].result[1]["failed_orders"]
                         = Len(open)

\* a close-all that found a long and a short position has reported after
\* one order succeeded and the other was answered with another code
CloseAllOrdersWitness ==
  /\ tool # <<>>
  /\ tool[1].name = "close_all_bitget_positions_correct"
  /\ tool[1].pc = "done"
  /\ Len(tool[1].placed) = 2
  /\ tool[1].placed[1].side = "SELL"
  /\ tool[1].placed[2].side = "BUY"
  /\ "close_order" \in DOMAIN tool[1].close_orders[1]
  /\ ResponseCodeOk(tool[1].close_orders[1]["close_order"])
  /\ "close_order" \in DOMAIN tool[1].close_orders[2]
  /\ tool[1].close_orders[2]["close_order"].t = "dict"
  /\ "code" \in DOMAIN tool[1].close_orders[2]["close_order"].d
  /\ ~ResponseCodeOk(tool[1].close_orders[2]["close_order"])
  /\ tool[1].result[1]["successful_orders"] = 1
  /\ tool[1].result[1]["failed_orders"] = 1

\* the positions response cannot be used: no dict, no data, or another code
FetchFailed(positions) ==
  \/ positions.t # "dict"
  \/ "data" \notin DOMAIN positions.d
  \/ "code" \notin DOMAIN positions.d
  \/ positions.d["code"] # OkCode

\* C30: in close_all_bitget_positions_correct and in
\* close_bitget_position_correct, a positions response that lacks data or
\* whose code is not 00000, every FAILED outcome included, makes the tool
\* return an error without one call of post_order.
NoCloseOnFailedFetch ==
  \A i \in 1..Len(tool) :
    (tool[i].positions # <<>> /\ FetchFailed(tool[i].positions[1])) =>
      /\ tool[i].pc = "done"
      /\ "error" \in DOMAIN tool[i].result[1]
      /\ tool[i].placed = <<>>
      /\ tool[i].close_orders = <<>>

\* the close of one symbol was answered with data under a code that is not
\* 00000, although the data holds an open position of that symbol
NoCloseOnFailedFetchWitness ==
  /\ tool # <<>>
  /\ tool[1].name = "close_bitget_position_correct"
  /\ tool[1].symbol = "btcusdt"
  /\ tool[1].positions # <<>>
  /\ tool[1].positions[1].t = "dict"
  /\ "data" \in DOMAIN tool[1].positions[1].d
  /\ tool[1].positions[1].d["code"] # OkCode
  /\ OpenPositions(tool[1].positions[1].d["data"]) # <<>>
  /\ tool[1].pc = "done"
  /\ tool[1].placed = <<>>

IsCloseAllReport(t) ==
  /\ t.name = "close_all_bitget_positions_correct"
  /\ t.pc = "done"
  /\ "action" \in DOMAIN t.result[1]

\* C31: in the report of close_all_bitget_positions_correct every entry of
\* close_orders is counted once, as successful or as failed, so that
\* successful_orders + failed_orders = len(close_orders) =
\* total_positions_found, also when an order raised for some position.
CloseAllAccounting ==
  \A i \in 1..Len(tool) :
    IsCloseAllReport(tool[i]) =>
      LET summary == tool[i].result[1]
          entries == summary["close_orders"]
      IN  /\ summary["successful_orders"] + summary["failed_orders"] = Len(entries)
          /\ Len(entries) = summary["total_positions_found"]
          /\ Len(entries) = Len(tool[i].active_positions)
          /\ summary["successful_orders"]
               = Cardinality({k \in 1..Len(entries) :
                                "success" \in DOMAIN entries[k] /\ entries[k]["success"]})

\* a report over two positions, the order of one of which raised
CloseAllAccountingWitness ==
  /\ tool # <<>>
  /\ IsCloseAllReport(tool[1])
  /\ Len(tool[1].close_orders) = 2
  /\ "error" \in DOMAIN tool[1].close_orders[1]
  /\ "success" \in DOMAIN tool[1].close_orders[2]
  /\ tool[1].close_orders[2]["success"]

\* how often node was run
Runs(node) ==
  IF flow = <<>> THEN 0
  ELSE Cardinality({k \in 1..Len(flow[1].trace) : flow[1].trace[k].node = node})

ReviewLoopBounded ==
  /\ Runs("review") <= MaxIterations
  /\ Runs("re_plan") <= MaxIterations - 1

LeftListenWithContinue == flow # <<>> /\ flow[1].node = "plan"

ReachedReport == flow # <<>> /\ (flow[1].node = "report" \/ Runs("report") > 0)

\* C32: whatever the reviews score and whichever role calls fail, review
\* runs at most max_iterations (3) times and re_plan at most
\* max_iterations - 1 times, and every run that leaves listen with
\* "continue" eventually reaches report.
ReviewLoopTerminates ==
  /\ []ReviewLoopBounded
  /\ LeftListenWithContinue ~> ReachedReport

\* the run has just left the node: it was the last to run and the graph has
\* chosen the next
JustRan(node) ==
  /\ flow # <<>>
  /\ flow[1].trace # <<>>
  /\ flow[1].trace[Len(flow[1].trace)].node = node
  /\ flow[1].at = "node"
  /\ flow[1].result = <<>>

\* C33: after a review the workflow goes to report iff the incremented
\* iteration has reached max_iterations or the average score is at least
\* 8.5, and to re_plan otherwise; a review that failed is scored 5.0 and
\* leads to re_plan whenever iterations remain.
ReviewDecisionRule ==
  JustRan("review") =>
    LET state == flow[1].state
    IN  /\ flow[1].node \in {"report", "re_plan"}
        /\ flow[1].node = "report"
             <=> (state.iteration >= MaxIterations \/ state.average_score[1] >= 85)
        /\ state.reviewer_result.error =>
             /\ state.average_score = <<50>>
             /\ state.scores_history[Len(state.scores_history)].average_score = 50
             /\ state.iteration < MaxIterations => flow[1].node = "re_plan"

\* the second review failed and the workflow plans again
ReviewDecisionRuleWitness ==
  /\ JustRan("review")
  /\ flow[1].state.iteration = 2
  /\ flow[1].state.reviewer_result.error
  /\ flow[1].node = "re_plan"

\* what the listener made of the query, once listen has run
Listened(outcomes) ==
  /\ flow # <<>>
  /\ flow[1].trace # <<>>
  /\ flow[1].trace[1].node = "listen"
  /\ flow[1].trace[1].mode \in outcomes

Gathering == flow # <<>> /\ flow[1].at = "gather"

\* while gather waits there is one coroutine per sub-question of the plan,
\* in the plan's order, and none is cancelled
OneTaskPerSubQuestion ==
  Gathering =>
    LET sub_questions == flow[1].state.planner_result.sub_questions
    IN  /\ Len(tasks) = Len(sub_questions)
        /\ \A i \in 1..Len(tasks) : tasks[i].sub_q = sub_questions[i]

\* the step in which gather returns puts the i-th coroutine's result, failed
\* or not, at the i-th place of collected_data
CollectedInPlanOrder ==
  (Gathering /\ flow'[1].at = "node") =>
    LET sub_questions == flow[1].state.planner_result.sub_questions
        collected_data == flow'[1].state.researcher_result.collected_data
    IN  /\ Len(collected_data) = Len(sub_questions)
        /\ \A i \in 1..Len(collected_data) :
             /\ collected_data[i].question = sub_questions[i].question
             /\ collected_data[i] = tasks[i].result[1]

\* C36: Researcher.process runs the sub-questions side by side and, in
\* whatever order they finish and whichever of them fail, collected_data
\* gets exactly one entry per sub-question, in the plan's order; a failed
\* sub-question neither cancels nor drops another.
ConcurrentResearchPreservesPlan ==
  /\ []OneTaskPerSubQuestion
  /\ [][CollectedInPlanOrder]_vars

\* three sub-questions were researched, the second failed, the others did not
ConcurrentResearchPreservesPlanWitness ==
  /\ JustRan("research")
  /\ Len(flow[1].state.researcher_result.collected_data) = 3
  /\ flow[1].state.researcher_result.collected_data[1].question = "q2"
  /\ flow[1].state.researcher_result.collected_data[3].question = "q1"
  /\ ~flow[1].state.researcher_result.collected_data[1].error
  /\ flow[1].state.researcher_result.collected_data[2].error
  /\ ~flow[1].state.researcher_result.collected_data[3].error

\* C37: every run that reaches reply or report ends with final_result set,
\* to the generated text or to the fallback text when the agent call fails,
\* so execute returns status "success" with a final_result that is not the
\* default, unless an exception left the graph; then it returns status
\* "error" instead of raising.
FinalResultAlwaysProduced ==
  flow # <<>> =>
    /\ Runs("reply") + Runs("report") > 0 =>
         /\ flow[1].node = "END"
         /\ flow[1].state.final_result # <<>>
         /\ flow[1].state.final_result[1]
              \in {"simple_response", "reply_fallback", "report_content", "fallback_report"}
    /\ flow[1].result # <<>> =>
         /\ flow[1].result[1].status \in {"success", "error"}
         /\ flow[1].result[1].status = "error" <=> flow[1].node = "raised"
         /\ flow[1].result[1].status = "success" =>
              /\ flow[1].result[1].final_result # "No result generated"
              /\ flow[1].result[1].final_result = flow[1].state.final_result[1]

\* the report agent failed after three reviews and execute returned the
\* fallback report
FinalResultAlwaysProducedWitness ==
  /\ flow # <<>>
  /\ Runs("report") = 1
  /\ flow[1].state.iteration = 3
  /\ flow[1].result # <<>>
  /\ flow[1].result[1].status = "success"
  /\ flow[1].result[1].final_result = "fallback_report"

\* the mode each planner or researcher node ran in, as the state shows it
\* right after the node
ModeAfterNode ==
  /\ (JustRan("plan") /\ flow[1].node # "raised") =>
       /\ flow[1].state.iteration = 0
       /\ flow[1].state.planner_result.is_initial_plan
       /\ ~flow[1].state.planner_result.is_adjusted_plan
       /\ flow[1].state.last_node = "plan"
  /\ JustRan("re_plan") =>
       /\ flow[1].state.iteration > 0
       /\ flow[1].state.planner_result.is_adjusted_plan
       /\ flow[1].state.last_node = "re_plan"
  /\ (JustRan("research") /\ flow[1].node # "raised") =>
       /\ flow[1].state.researcher_result.research_mode = "initial"
       /\ Len(flow[1].state.analysis_history) = 1
  /\ JustRan("re_research") =>
       /\ flow[1].state.researcher_result.research_mode = "additional"
       /\ Len(flow[1].state.analysis_history) > 1
  /\ flow # <<>> =>
       \A k \in 1..Len(flow[1].trace) :
         /\ flow[1].trace[k].node = "plan" => k = 2 /\ flow[1].trace[k].mode = "initial"
         /\ flow[1].trace[k].node = "re_plan" => flow[1].trace[k].mode = "replan"
         /\ flow[1].trace[k].node = "research" => k = 3 /\ flow[1].trace[k].mode = "initial"
         /\ flow[1].trace[k].node = "re_research" => flow[1].trace[k].mode = "additional"

\* a planner step after a review that ends with an error leaves the plan's
\* sub-questions as they were
ReplanKeepsPlanOnError ==
  (flow # <<>> /\ flow[1].node = "re_plan" /\ flow'[1].state.planner_result.error) =>
    /\ flow'[1].state.planner_result.sub_questions = flow[1].state.planner_result.sub_questions
    /\ flow'[1].state.planner_result.is_initial_plan
         = flow[1].state.planner_result.is_initial_plan

\* C38: the first run of the planner (iteration 0, last_node without
\* "re_plan") makes an initial plan, every planner run after a review
\* (iteration > 0) is a re-plan, which keeps the previous plan on error;
\* the researcher's first pass is "initial" and every later one "additional".
PlannerModeSelection ==
  /\ []ModeAfterNode
  /\ [][ReplanKeepsPlanOnError]_vars

\* the second re-plan failed and kept the two sub-questions of the plan
PlannerModeSelectionWitness ==
  /\ JustRan("re_plan")
  /\ flow[1].state.iteration = 2
  /\ flow[1].state.planner_result.error
  /\ flow[1].state.planner_result.is_adjusted_plan
  /\ Len(flow[1].state.planner_result.sub_questions) = 2

\* the client holds a session exactly when it says it is connected
ConnectedIffSession ==
  mcp # <<>> => (mcp[1].connected <=> mcp[1].session # <<>>)

\* list_tools and call_tool have returned, with [] / None after any failure
ReturnsInsteadOfRaising ==
  mcp # <<>> =>
    LET last == mcp[1].last
        failed == last.response.raises \/ last.response.status # 200
                    \/ last.response.body = "None"
    IN  /\ last.op \in {"list_tools", "call_tool"} => last.outcome = "returned"
        /\ last.op = "list_tools" =>
             /\ last.value \in {"[]", "tools"}
             /\ failed => last.value = "[]"
        /\ last.op = "call_tool" =>
             /\ last.value \in {"None", "result", "body"}
             /\ failed => last.value = "None"

\* a step of the named call of the client
McpStep(ops) == mcp # <<>> /\ mcp' # mcp /\ mcp'[1].last.op \in ops

\* connect on a connected client makes no session; list_tools and call_tool
\* make one exactly when the client is not connected and connecting works
ConnectsWhenNeeded ==
  /\ (McpStep({"connect", "list_tools", "call_tool"}) /\ mcp[1].connected) =>
       /\ mcp'[1].session = mcp[1].session
       /\ mcp'[1].created = mcp[1].created
       /\ mcp'[1].connected
       /\ mcp'[1].last.op = "connect" => mcp'[1].last.value = "True"
  /\ (McpStep({"connect", "list_tools", "call_tool"}) /\ ~mcp[1].connected) =>
       \/ /\ mcp'[1].connected
          /\ mcp'[1].created = mcp[1].created + 1
          /\ mcp'[1].session = <<[id |-> mcp[1].created + 1, closed |-> FALSE]>>
          /\ mcp'[1].last.op = "connect" => mcp'[1].last.value = "True"
       \/ /\ ~mcp'[1].connected
          /\ mcp'[1].created = mcp[1].created
          /\ mcp'[1].session = <<>>
          /\ mcp'[1].last.value
               = CASE mcp'[1].last.op = "connect" -> "False"
                   [] mcp'[1].last.op = "list_tools" -> "[]"
                   [] mcp'[1].last.op = "call_tool" -> "None"

\* C39: after any sequence of connect, disconnect, list_tools and call_tool
\* connected is True iff session is not None; a connect while connected
\* makes no new session; list_tools and call_tool connect first when the
\* client is not connected, and return [] / None on any failure, never raise.
MCPClientConnectionState ==
  /\ [](ConnectedIffSession /\ ReturnsInsteadOfRaising)
  /\ [][ConnectsWhenNeeded]_vars

\* connect was called on a client whose disconnect had failed while closing
\* the session: it is still connected, with its second session, now closed
MCPClientConnectionStateWitness ==
  /\ mcp # <<>>
  /\ mcp[1].last.op = "connect"
  /\ mcp[1].last.value = "True"
  /\ mcp[1].connected
  /\ mcp[1].created = 2
  /\ mcp[1].session = <<[id |-> 2, closed |-> TRUE]>>

====
